---- MODULE Spec2Model ----
(***************************************************************************)
(* PAK.sh Web: the authenticator (login, lockout, sessions, password       *)
(* reset) and the webhook delivery engine, as state machines over the      *)
(* database tables and the client's cookie.                                *)
(*                                                                         *)
(* Two applications share the tables: the blueprint application            *)
(* (app_factory.py, blueprints/, services/) and the stand-alone            *)
(* application app.py (class PakHerd). A behaviour runs one of them; the   *)
(* variable app says which.                                                *)
(*                                                                         *)
(* Time is a count of minutes. An absent value (None, NULL) is the empty   *)
(* sequence and a present value v is <<v>>.                                *)
(***************************************************************************)
EXTENDS Integers, Sequences, FiniteSets, TLC

VARIABLES
    app,          \* "factory" (blueprints) or "herd" (app.py)
    now,          \* datetime.utcnow(), in minutes
    users,        \* table users: id -> row
    sessions,     \* table sessions: set of UserSession rows
    resets,       \* table password_resets: sequence of rows, in rowid order
    attempts,     \* table login_attempts: number of rows by success flag
    cookie,       \* the client's Flask session cookie
    nextSession,  \* the next session id secrets.token_urlsafe returns
    nextToken,    \* the next reset token secrets.token_urlsafe returns
    streak,       \* history: consecutive wrong-password attempts per user
    lockDeadline, \* history: locked_until as set by the fifth failure of a streak
    spent,        \* history: reset tokens a successful reset consumed
    superseded,   \* history: tokens unused when a later request issued a new one
    requested,    \* history: tokens unused when a later request was made at all
    dbFaulty,     \* whether database writes of this behaviour may fail
    workers,      \* the requests in flight in the request workers: id -> position
    projects,     \* table pak_projects: id -> row
    deployments,  \* table pak_deployments: set of rows
    webhooks,     \* table webhooks: id -> row
    deliveries,   \* table webhook_deliveries: sequence of rows, in rowid order
    wire,         \* the calls of deliver_to_webhook so far, with their requests
    last          \* the last operation, its inputs and its result

vars == <<app, now, users, sessions, resets, attempts, cookie, nextSession,
          nextToken,
          streak, lockDeadline, spent, superseded, requested,
          dbFaulty, workers, projects, deployments, webhooks, deliveries, wire,
          last>>

authVars == <<users, sessions, resets, attempts, cookie, nextSession, nextToken,
              streak, lockDeadline, spent, superseded, requested>>

hookVars == <<webhooks, deliveries, wire>>

projVars == <<projects, deployments>>

----------------------------------------------------------------------------
(* Values *)

None == <<>>
Some(v) == <<v>>
Val(o) == o[1]

MinutesPerHour == 60
MinutesPerDay == 1440

\* program constants
MAX_FAILED_ATTEMPTS == 5
LOCK_MINUTES == 30
HERD_LOCK_MINUTES == 15
SESSION_DAYS == 1
REMEMBER_DAYS == 7
HERD_REMEMBER_DAYS == 30
RESET_HOURS == 24
MIN_PASSWORD_LENGTH == 8

\* bounds of the model
MaxStreak == 6
MaxAttemptRows == 6
MaxSessions == 1
MaxTokens == 2
ResetTick == 1440
ResetHorizon == 2880
LockTick == 15
LoginHorizon == 30
SessionTick == 1440
SessionHorizon == 2880

UserIds == {1, 2}
Emails == {"root@pak", "dev@pak", "ghost@pak"}
Passwords == {"hunter2-hunter2", "correct-horse", "short"}
TriedPasswords == {"hunter2-hunter2", "correct-horse"}

Min(a, b) == IF a < b THEN a ELSE b

----------------------------------------------------------------------------
(* models.py: User *)

generate_password_hash(password) == [method |-> "pbkdf2:sha256", of |-> password]

check_password(user, password) ==
    user.password_hash = generate_password_hash(password)

is_locked_flipped(user) ==
    user.locked_until # None /\ Val(user.locked_until) < now

is_locked(user) ==
    user.locked_until # None /\ Val(user.locked_until) > now

record_failed_login_late(user) ==
    LET n == user.failed_attempts + 1
    IN [user EXCEPT !.failed_attempts = n,
                    !.locked_until = IF n > MAX_FAILED_ATTEMPTS
                                     THEN Some(now + LOCK_MINUTES)
                                     ELSE @]

\* a lock that is set by the failure that reaches the limit and by no later
\* one
record_failed_login_once(user) ==
    LET n == user.failed_attempts + 1
    IN [user EXCEPT !.failed_attempts = n,
                    !.locked_until = IF n = MAX_FAILED_ATTEMPTS
                                     THEN Some(now + LOCK_MINUTES)
                                     ELSE @]

record_failed_login(user) ==
    LET n == user.failed_attempts + 1
    IN [user EXCEPT !.failed_attempts = n,
                    !.locked_until = IF n >= MAX_FAILED_ATTEMPTS
                                     THEN Some(now + LOCK_MINUTES)
                                     ELSE @]

reset_failed_attempts_keep_lock(user) ==
    [user EXCEPT !.failed_attempts = 0]

reset_failed_attempts(user) ==
    [user EXCEPT !.failed_attempts = 0, !.locked_until = None]

\* UserSession.is_expired / PasswordReset.is_expired
is_expired(row) == now > row.expires_at

\* User.query.filter_by(email=email).first()
UserByEmail(email) ==
    LET hit == {u \in UserIds : users[u].email = email}
    IN IF hit = {} THEN None ELSE Some(CHOOSE u \in hit : TRUE)

InitUsers ==
    [u \in UserIds |->
        [email |-> IF u = 1 THEN "root@pak" ELSE "dev@pak",
         role |-> IF u = 1 THEN "admin" ELSE "user",
         password_hash |-> generate_password_hash("hunter2-hunter2"),
         is_active |-> TRUE,
         failed_attempts |-> 0,
         locked_until |-> None]]

NoCookie == [user_id |-> None, session_id |-> None]

-----------------------------------------------------------------------------
(* Projects and deployments: the tables *)

\* the request workers of the deployment (gunicorn processes, or the threads
\* of the development server), each with a session of its own
MaxWorkers == 2
MaxWorkerCalls == 3

WorkerIds == 1 .. MaxWorkers

NoWorkers == [k \in WorkerIds |-> [pc |-> "idle"]]

MaxProjects == 2
MaxDeployments == 2

ProjectIds == 1..MaxProjects
ProjectNames == {"pak", "herd"}

\* Column(Float): successful / total * 100, kept as a fraction
Rate(successful, total) == [num |-> 100 * successful, den |-> total]

SameRate(a, b) == a.num * b.den = b.num * a.den

DEFAULT_SUCCESS_RATE == [num |-> 0, den |-> 1]

\* no project exists after db.create_all()
InitProjects == [p \in {} |-> None]

\* the rows of pak_deployments that belong to a project
DeploymentsOf(rows, project_id) == {d \in rows : d.project_id = project_id}

COMPLETED == {"success", "failed", "cancelled"}

is_completed(d) == d.status \in COMPLETED

RECURSIVE MaxOf(_)
MaxOf(S) ==
    IF S = {} THEN 0
    ELSE LET x == CHOOSE y \in S : TRUE
             m == MaxOf(S \ {x})
         IN IF x > m THEN x ELSE m

\* INTEGER PRIMARY KEY: one more than the largest id in the table
NextId(ids) == MaxOf(ids) + 1

----------------------------------------------------------------------------
(* History of the login streaks (not program state) *)

\* a wrong-password attempt for user u; rowAfter is the user's row afterwards
StreakAfterFailure(u, rowAfter) ==
    /\ streak' = [streak EXCEPT ![u] = @ + 1]
    /\ lockDeadline' =
          IF streak[u] + 1 = MAX_FAILED_ATTEMPTS
          THEN [lockDeadline EXCEPT ![u] = rowAfter.locked_until]
          ELSE lockDeadline

StreakAfterSuccess(u) ==
    /\ streak' = [streak EXCEPT ![u] = 0]
    /\ lockDeadline' = [lockDeadline EXCEPT ![u] = None]

----------------------------------------------------------------------------
(* blueprints/auth.py: login; blueprints/api.py: AuthLogin.post *)

NewSession(u, days) ==
    [session_id |-> nextSession, user_id |-> u,
     expires_at |-> now + days * MinutesPerDay]

\* what the handler was given and answered; before is the user's row when
\* the handler started (None for an unknown email)
LoginResult(via, email, password, result) ==
    [op |-> "login", via |-> via, email |-> email, password |-> password,
     before |-> IF UserByEmail(email) = None THEN None
                ELSE Some(users[Val(UserByEmail(email))]),
     result |-> result]

\* app.py: the failure branch of PakHerd.login
herd_record_failure(user) ==
    LET n == user.failed_attempts + 1
    IN [user EXCEPT !.failed_attempts = n,
                    !.locked_until = IF n >= MAX_FAILED_ATTEMPTS
                                     THEN Some(now + HERD_LOCK_MINUTES)
                                     ELSE @]

\* how a commit of the login handlers ends
LoginDbOutcomes == IF dbFaulty THEN {"ok", "error"} ELSE {"ok"}

\* what the handler answers when the commit of the audit row raises:
\* _log_attempt of app.py swallows the exception, the blueprints let it out
AuditFailureResult(via) ==
    IF via = "herd" THEN "invalid_credentials" ELSE "error"

\* the branch "not user or not user.check_password(password)": first is the
\* commit of the counter, second the commit of the LoginAttempt row
LoginFailedWith(email, password, via, first, second) ==
    LET found == UserByEmail(email)
    IN /\ attempts.ok + attempts.failed < MaxAttemptRows
       /\ UNCHANGED <<sessions, cookie, nextSession>>
       /\ IF found # None /\ first = "error"
          THEN /\ last' = LoginResult(via, email, password, "error")
               /\ UNCHANGED <<users, attempts, streak, lockDeadline>>
          ELSE /\ attempts' = IF second = "ok"
                              THEN [attempts EXCEPT !.failed = @ + 1]
                              ELSE attempts
               /\ last' = LoginResult(via, email, password,
                              IF second = "ok" THEN "invalid_credentials"
                              ELSE AuditFailureResult(via))
               /\ IF found = None
                  THEN UNCHANGED <<users, streak, lockDeadline>>
                  ELSE LET u == Val(found)
                           row == IF via = "herd"
                                  THEN herd_record_failure(users[u])
                                  ELSE record_failed_login(users[u])
                       IN /\ streak[u] < MaxStreak
                          /\ users' = [users EXCEPT ![u] = row]
                          /\ StreakAfterFailure(u, row)

LoginFailed(email, password, via) ==
    \E first, second \in LoginDbOutcomes :
        /\ (UserByEmail(email) = None => first = "ok")
        /\ LoginFailedWith(email, password, via, first, second)

\* the checks after the password matched: "locked", "disabled" or "ok"
LoginGate(user) ==
    IF is_locked(user) THEN "locked"
    ELSE IF ~user.is_active THEN "disabled"
    ELSE "ok"

LoginRefused(email, password, via, why) ==
    /\ last' = LoginResult(via, email, password, why)
    /\ UNCHANGED <<users, sessions, attempts, cookie, nextSession,
                   streak, lockDeadline>>

AuthLogin(email, password, remember) ==
    LET found == UserByEmail(email)
    IN /\ app = "factory"
       /\ UNCHANGED <<app, now, resets, nextToken, spent, superseded, requested,
                      dbFaulty, workers, projVars, hookVars>>
       /\ IF found = None \/ ~check_password(users[Val(found)], password)
          THEN LoginFailed(email, password, "auth")
          ELSE LET u == Val(found) IN
               IF LoginGate(users[u]) # "ok"
               THEN LoginRefused(email, password, "auth", LoginGate(users[u]))
               ELSE /\ Cardinality(sessions) < MaxSessions
                    /\ attempts.ok + attempts.failed < MaxAttemptRows
                    /\ users' = [users EXCEPT ![u] = reset_failed_attempts(@)]
                    /\ attempts' = [attempts EXCEPT !.ok = @ + 1]
                    /\ sessions' = sessions \cup
                          {NewSession(u, IF remember THEN REMEMBER_DAYS
                                                     ELSE SESSION_DAYS)}
                    /\ nextSession' = nextSession + 1
                    /\ cookie' = [user_id |-> Some(u),
                                  session_id |-> Some(nextSession)]
                    /\ StreakAfterSuccess(u)
                    /\ last' = LoginResult("auth", email, password, "success")

\* the JSON login: the same checks, JWT tokens instead of a session row
ApiLogin(email, password) ==
    LET found == UserByEmail(email)
    IN /\ app = "factory"
       /\ UNCHANGED <<app, now, resets, nextToken, spent, superseded, requested,
                      dbFaulty, workers, projVars, hookVars>>
       /\ IF found = None \/ ~check_password(users[Val(found)], password)
          THEN LoginFailed(email, password, "api")
          ELSE LET u == Val(found) IN
               IF LoginGate(users[u]) # "ok"
               THEN LoginRefused(email, password, "api", LoginGate(users[u]))
               ELSE /\ attempts.ok + attempts.failed < MaxAttemptRows
                    /\ users' = [users EXCEPT ![u] = reset_failed_attempts(@)]
                    /\ attempts' = [attempts EXCEPT !.ok = @ + 1]
                    /\ StreakAfterSuccess(u)
                    /\ last' = LoginResult("api", email, password, "success")
                    /\ UNCHANGED <<sessions, cookie, nextSession>>

----------------------------------------------------------------------------
(* app.py: PakHerd.login *)

herd_is_locked(user) ==
    user.locked_until # None /\ Val(user.locked_until) > now

HerdLogin(email, password, remember) ==
    LET found == UserByEmail(email)
        wrong == found = None \/ ~check_password(users[Val(found)], password)
    IN /\ app = "herd"
       /\ UNCHANGED <<app, now, resets, nextToken, spent, superseded, requested,
                      dbFaulty, workers, projVars, hookVars>>
       /\ IF found # None /\ herd_is_locked(users[Val(found)])
          THEN \* refused before the password is looked at
               /\ last' = LoginResult("herd", email, password, "locked")
               /\ UNCHANGED <<users, sessions, attempts, cookie, nextSession>>
               /\ IF wrong
                  THEN /\ streak[Val(found)] < MaxStreak
                       /\ StreakAfterFailure(Val(found), users[Val(found)])
                  ELSE UNCHANGED <<streak, lockDeadline>>
          ELSE IF ~wrong
          THEN LET u == Val(found) IN
               /\ Cardinality(sessions) < MaxSessions
               /\ attempts.ok + attempts.failed < MaxAttemptRows
               /\ users' = [users EXCEPT ![u] = [@ EXCEPT !.failed_attempts = 0,
                                                          !.locked_until = None]]
               /\ sessions' = sessions \cup
                     {NewSession(u, IF remember THEN HERD_REMEMBER_DAYS
                                                ELSE SESSION_DAYS)}
               /\ nextSession' = nextSession + 1
               /\ cookie' = [user_id |-> Some(u), session_id |-> Some(nextSession)]
               /\ attempts' = [attempts EXCEPT !.ok = @ + 1]
               /\ StreakAfterSuccess(u)
               /\ last' = LoginResult("herd", email, password, "success")
          ELSE LoginFailed(email, password, "herd")

----------------------------------------------------------------------------
(* logout, the login_required decorators, admin.py: toggle_user_status *)

\* blueprints/auth.py logout: every session row of the current user
AuthLogout ==
    /\ app = "factory"
    /\ cookie.user_id # None
    /\ sessions' = {s \in sessions : s.user_id # Val(cookie.user_id)}
    /\ cookie' = NoCookie
    /\ last' = [op |-> "logout", via |-> "auth", result |-> "success"]
    /\ UNCHANGED <<app, now, users, resets, attempts, nextSession, nextToken,
                   streak,
                   lockDeadline, spent, superseded, requested, dbFaulty, workers, projVars,
                   hookVars>>

\* app.py PakHerd.logout: the session row of this cookie
HerdLogout ==
    /\ app = "herd"
    /\ last # [op |-> "logout", via |-> "herd", result |-> "success"]
    /\ sessions' = IF cookie.session_id # None
                   THEN {s \in sessions : s.session_id # Val(cookie.session_id)}
                   ELSE sessions
    /\ cookie' = NoCookie
    /\ last' = [op |-> "logout", via |-> "herd", result |-> "success"]
    /\ UNCHANGED <<app, now, users, resets, attempts, nextSession, nextToken,
                   streak,
                   lockDeadline, spent, superseded, requested, dbFaulty, workers, projVars,
                   hookVars>>

\* a request to a route behind login_required: app.py looks for user_id in
\* the cookie, the blueprints load the cookie's user through load_user
Authenticated ==
    /\ cookie.user_id # None
    /\ Val(cookie.user_id) \in UserIds

\* the session row the cookie was issued with, if it is still there
PresentedSession ==
    {s \in sessions : cookie.session_id # None
                      /\ s.session_id = Val(cookie.session_id)}

Request ==
    /\ last' = [op |-> "request", authenticated |-> Authenticated]
    /\ UNCHANGED <<app, now, authVars, dbFaulty, workers, projVars, hookVars>>

ToggleUserStatus(u) ==
    /\ app = "factory"
    /\ Authenticated
    /\ users[Val(cookie.user_id)].role = "admin"
    /\ u # Val(cookie.user_id)
    /\ users' = [users EXCEPT ![u].is_active = ~@]
    /\ last' = [op |-> "toggle_user_status", user |-> u]
    /\ UNCHANGED <<app, now, sessions, resets, attempts, cookie, nextSession,
                   nextToken,
                   streak, lockDeadline, spent, superseded, requested,
                   dbFaulty, workers, projVars, hookVars>>

Tick(step, horizon) ==
    /\ now + step <= horizon
    /\ now' = now + step
    /\ last' = [op |-> "tick"]
    /\ UNCHANGED <<app, authVars, dbFaulty, workers, projVars, hookVars>>

----------------------------------------------------------------------------
(* Password reset: blueprints/auth.py forgot_password / reset_password,    *)
(* app.py PakHerd.request_password_reset / PakHerd.reset_password          *)

PasswordLength(password) == Len(password)

Indexes(seq) == 1..Len(seq)

\* the tokens of the user's rows with used = False
UnusedTokens(u) ==
    {resets[i].token : i \in {j \in Indexes(resets) :
                                 resets[j].user_id = u /\ ~resets[j].used}}

\* PasswordReset.query.filter_by(token=token, used=False).first():
\* the index of the row, or 0
find_reset(token) ==
    LET hit == {i \in Indexes(resets) :
                   resets[i].token = token /\ ~resets[i].used}
    IN IF hit = {} THEN 0 ELSE CHOOSE i \in hit : \A j \in hit : i <= j

\* PasswordReset.query.filter_by(user_id=user.id, used=False).first()
find_unused_of(u) ==
    LET hit == {i \in Indexes(resets) :
                   resets[i].user_id = u /\ ~resets[i].used}
    IN IF hit = {} THEN 0 ELSE CHOOSE i \in hit : \A j \in hit : i <= j

\* whether reset_password accepts the token now
ValidReset(token) ==
    /\ find_reset(token) # 0
    /\ ~is_expired(resets[find_reset(token)])

NewReset(u) ==
    [user_id |-> u, token |-> nextToken,
     expires_at |-> now + RESET_HOURS * MinutesPerHour, used |-> FALSE]

keep_user_resets(u) == resets

\* PasswordReset.query.filter_by(user_id=user.id).delete()
delete_user_resets(u) ==
    SelectSeq(resets, LAMBDA row : row.user_id # u)

mark_unused(row) == row

mark_used(row) == [row EXCEPT !.used = TRUE]

ForgotPassword(email) ==
    LET found == UserByEmail(email)
    IN /\ app = "factory"
       /\ UNCHANGED <<app, now, users, sessions, attempts, cookie, nextSession,
                      streak,
                      lockDeadline, spent, dbFaulty, workers, projVars, hookVars>>
       /\ IF found # None /\ users[Val(found)].is_active
          THEN LET u == Val(found) IN
               /\ nextToken <= MaxTokens
               /\ resets' = Append(delete_user_resets(u), NewReset(u))
               /\ nextToken' = nextToken + 1
               /\ superseded' = superseded \cup UnusedTokens(u)
               /\ requested' = requested \cup UnusedTokens(u)
               /\ last' = [op |-> "forgot_password", via |-> "auth",
                           email |-> email, result |-> "sent",
                           token |-> Some(nextToken)]
          ELSE /\ requested' = IF found = None THEN requested
                               ELSE requested \cup UnusedTokens(Val(found))
               /\ last' = [op |-> "forgot_password", via |-> "auth",
                           email |-> email, result |-> "sent",
                           token |-> None]
               /\ UNCHANGED <<resets, nextToken, superseded>>

HerdRequestPasswordReset(email) ==
    LET found == UserByEmail(email)
    IN /\ app = "herd"
       /\ UNCHANGED <<app, now, users, sessions, attempts, cookie, nextSession,
                      streak,
                      lockDeadline, spent, dbFaulty, workers, projVars, hookVars>>
       /\ IF found = None
          THEN /\ last' = [op |-> "forgot_password", via |-> "herd",
                           email |-> email, result |-> "user_not_found",
                           token |-> None]
               /\ UNCHANGED <<resets, nextToken, superseded, requested>>
          ELSE LET u == Val(found)
                   i == find_unused_of(u)
               IN /\ nextToken <= MaxTokens
                  /\ resets' =
                        IF i # 0
                        THEN [resets EXCEPT
                                ![i].token = nextToken,
                                ![i].expires_at =
                                    now + RESET_HOURS * MinutesPerHour]
                        ELSE Append(resets, NewReset(u))
                  /\ nextToken' = nextToken + 1
                  /\ superseded' = superseded \cup UnusedTokens(u)
                  /\ requested' = requested \cup UnusedTokens(u)
                  /\ last' = [op |-> "forgot_password", via |-> "herd",
                              email |-> email, result |-> "sent",
                              token |-> Some(nextToken)]

\* complete: a POST whose two password fields agree and are long enough;
\* valid: whether the token was unused and unexpired when the handler started
ResetResult(via, token, method, password, confirm, result) ==
    [op |-> "reset_password", via |-> via, token |-> token,
     complete |-> /\ method = "POST"
                  /\ password = confirm
                  /\ (via = "auth" =>
                        PasswordLength(password) >= MIN_PASSWORD_LENGTH),
     password |-> IF result = "success" THEN Some(password) ELSE None,
     valid |-> ValidReset(token), result |-> result]

\* set the password of the row's user and mark the row used, in one commit
ApplyReset(i, password) ==
    /\ users' = [users EXCEPT ![resets[i].user_id].password_hash =
                                  generate_password_hash(password)]
    /\ resets' = [resets EXCEPT ![i] = mark_used(@)]
    /\ spent' = spent \cup {resets[i].token}

ResetPassword(token, method, password, confirm) ==
    LET i == find_reset(token)
    IN /\ app = "factory"
       /\ UNCHANGED <<app, now, sessions, attempts, cookie, nextSession,
                      nextToken, streak,
                      lockDeadline, superseded, requested, dbFaulty, workers, projVars, hookVars>>
       /\ IF i = 0 \/ is_expired(resets[i])
          THEN /\ last' = ResetResult("auth", token, method, password, confirm,
                                      "invalid_or_expired")
               /\ UNCHANGED <<users, resets, spent>>
          ELSE IF method = "GET"
          THEN /\ last' = ResetResult("auth", token, method, password, confirm,
                                      "form")
               /\ UNCHANGED <<users, resets, spent>>
          ELSE IF \/ password # confirm
                  \/ PasswordLength(password) < MIN_PASSWORD_LENGTH
          THEN /\ last' = ResetResult("auth", token, method, password, confirm,
                                      "validation_error")
               /\ UNCHANGED <<users, resets, spent>>
          ELSE /\ ApplyReset(i, password)
               /\ last' = ResetResult("auth", token, method, password, confirm,
                                      "success")

HerdResetPassword(token, password) ==
    LET i == find_reset(token)
    IN /\ app = "herd"
       /\ UNCHANGED <<app, now, sessions, attempts, cookie, nextSession,
                      nextToken, streak,
                      lockDeadline, superseded, requested, dbFaulty, workers, projVars, hookVars>>
       /\ IF i = 0 \/ resets[i].expires_at < now
          THEN /\ last' = ResetResult("herd", token, "POST", password, password,
                                      "invalid_or_expired")
               /\ UNCHANGED <<users, resets, spent>>
          ELSE /\ ApplyReset(i, password)
               /\ last' = ResetResult("herd", token, "POST", password, password,
                                      "success")

----------------------------------------------------------------------------

Init ==
    /\ app \in {"factory", "herd"}
    /\ now = 0
    /\ users = InitUsers
    /\ sessions = {}
    /\ resets = <<>>
    /\ attempts = [ok |-> 0, failed |-> 0]
    /\ cookie = NoCookie
    /\ nextSession = 1
    /\ nextToken = 1
    /\ streak = [u \in UserIds |-> 0]
    /\ lockDeadline = [u \in UserIds |-> None]
    /\ spent = {}
    /\ superseded = {}
    /\ requested = {}
    /\ dbFaulty = FALSE
    /\ workers = NoWorkers
    /\ projects = InitProjects
    /\ deployments = {}
    /\ webhooks = <<>>
    /\ deliveries = <<>>
    /\ wire = <<>>
    /\ last = [op |-> "init"]

DoAuthLogin ==
    \E email \in Emails, password \in TriedPasswords :
        AuthLogin(email, password, FALSE)

TickLock == Tick(LockTick, LoginHorizon)

DoApiLogin ==
    \E email \in Emails, password \in TriedPasswords : ApiLogin(email, password)

DoHerdLogin ==
    \E email \in Emails, password \in TriedPasswords :
        HerdLogin(email, password, FALSE)

DoToggleUserStatus == \E u \in UserIds : ToggleUserStatus(u)

NextLogin ==
    \/ DoAuthLogin
    \/ DoApiLogin
    \/ DoHerdLogin
    \/ AuthLogout
    \/ HerdLogout
    \/ DoToggleUserStatus
    \/ TickLock

SpecLogin == Init /\ [][NextLogin]_vars

Tokens == 0..MaxTokens

DoForgotPassword == \E email \in Emails : ForgotPassword(email)

DoHerdRequestPasswordReset ==
    \E email \in Emails : HerdRequestPasswordReset(email)

DoResetPassword ==
    \E token \in Tokens, password \in Passwords :
        \/ ResetPassword(token, "GET", "", "")
        \/ \E confirm \in {password, "typo"} :
              ResetPassword(token, "POST", password, confirm)

DoHerdResetPassword ==
    \E token \in Tokens, password \in Passwords :
        HerdResetPassword(token, password)

\* the administrator signs in (to reach toggle_user_status)
DoAdminLogin ==
    \E password \in TriedPasswords :
        /\ check_password(users[1], password)
        /\ AuthLogin(users[1].email, password, FALSE)

TickReset == Tick(ResetTick, ResetHorizon)

NextReset ==
    \/ DoForgotPassword
    \/ DoHerdRequestPasswordReset
    \/ DoResetPassword
    \/ DoHerdResetPassword
    \/ DoAdminLogin
    \/ DoToggleUserStatus
    \/ TickReset

SpecReset == Init /\ [][NextReset]_vars

DoSessionLogin ==
    \E email \in Emails, password \in TriedPasswords, remember \in BOOLEAN :
        \/ AuthLogin(email, password, remember)
        \/ HerdLogin(email, password, remember)

TickSession == Tick(SessionTick, SessionHorizon)

NextSession ==
    \/ DoSessionLogin
    \/ Request
    \/ AuthLogout
    \/ HerdLogout
    \/ TickSession

SpecSession == Init /\ [][NextSession]_vars

----------------------------------------------------------------------------
(* Webhook delivery engine: services/webhook_service.py,                   *)
(* blueprints/webhooks.py, models.py Webhook / WebhookDelivery             *)
(*                                                                         *)
(* A JSON object is the sequence of its <<key, value>> pairs in insertion  *)
(* order; a value is tagged with its type. wire is the log of every        *)
(* deliver_to_webhook call: the request it sent and how the call ended.    *)

DEFAULT_CLEANUP_DAYS == 90
DEFAULT_MAX_RETRIES == 3
RETRIED_STATUS == 200

MaxWire == 2
MaxSigned == 4
HookTick == 1440
HookHorizon == 1440

CleanupTick == 1440
CleanupHorizon == 2880

WebhookIds == {1, 2, 3}
EventTypes ==
    {"deployment.completed", "user.login", "project.deleted", "user.registered"}

Str(s) == [str |-> s]
Num(n) == [num |-> n]
Obj(d) == [obj |-> d]

Payloads ==
    { <<<<"repo", Str("pak")>>, <<"commit", Str("abc123")>>>>,
      <<<<"commit", Str("abc123")>>, <<"repo", Str("pak")>>>> }

\* the keys in use, in the order json.dumps(sort_keys=True) writes them
KeyOrder ==
    <<"commit", "data", "event", "message", "repo", "timestamp",
      "webhook_id", "webhook_name">>

Rank(key) == CHOOSE i \in 1..Len(KeyOrder) : KeyOrder[i] = key

RECURSIVE InsertSorted(_, _)
InsertSorted(pair, sorted) ==
    IF sorted = <<>> THEN <<pair>>
    ELSE IF Rank(pair[1]) <= Rank(Head(sorted)[1]) THEN <<pair>> \o sorted
    ELSE <<Head(sorted)>> \o InsertSorted(pair, Tail(sorted))

\* json.dumps(payload, sort_keys=True): nested objects are sorted as well
RECURSIVE dumps_sorted(_)
dumps_sorted(object) ==
    IF object = <<>> THEN <<>>
    ELSE LET key == Head(object)[1]
             value == Head(object)[2]
             text == IF "obj" \in DOMAIN value
                     THEN Obj(dumps_sorted(value.obj))
                     ELSE value
         IN InsertSorted(<<key, text>>, dumps_sorted(Tail(object)))

hmac_sha256(key, message) == [key |-> key, message |-> message]

generate_signature(secret, payload) ==
    [prefix |-> "sha256", hexdigest |-> hmac_sha256(secret, dumps_sorted(payload))]

\* if webhook.secret: None and the empty string are both falsy
has_secret(target) == target.secret # None /\ Val(target.secret) # ""

request_data(event_type, payload) ==
    [event |-> event_type, timestamp |-> now, data |-> payload]

build_headers_signing_envelope(target, w, event_type, payload) ==
    [event |-> event_type,
     id |-> w,
     timestamp |-> now,
     signature |->
        IF has_secret(target)
        THEN Some([prefix |-> "sha256",
                   hexdigest |-> hmac_sha256(Val(target.secret),
                                             request_data(event_type, payload))])
        ELSE None]

build_headers(target, w, event_type, payload) ==
    [event |-> event_type,
     id |-> w,
     timestamp |-> now,
     signature |->
        IF has_secret(target)
        THEN Some(generate_signature(Val(target.secret), payload))
        ELSE None]

is_success_upto_300(status_code) == 200 <= status_code /\ status_code <= 300

is_success(status_code) == 200 <= status_code /\ status_code < 300

Response(status_code) == [kind |-> "response", status_code |-> status_code]

StatusCodes == {200, 204, 299, 300, 404, 500}

HttpOutcomes ==
    {Response(s) : s \in StatusCodes}
        \cup {[kind |-> "timeout"], [kind |-> "connection_error"]}

DbOutcomes == IF dbFaulty THEN {"ok", "flush_error", "commit_error"} ELSE {"ok"}

\* The SQLAlchemy session of one request: mem is what its objects hold, db
\* what is committed, fresh the objects whose attributes are loaded. A
\* commit expires every object; a failed flush rolls back, expires every
\* object and leaves the session unusable until a rollback() nobody calls;
\* a failed COMMIT leaves it unusable with the objects still loaded.
WebhookKey(w) == <<"webhook", w>>
DeliveryKey(i) == <<"delivery", i>>

OpenSession(loaded) ==
    [mem |-> [webhooks |-> webhooks, deliveries |-> deliveries],
     db |-> [webhooks |-> webhooks, deliveries |-> deliveries],
     wire |-> wire,
     usable |-> TRUE,
     fresh |-> loaded]

\* reading an attribute of an expired object emits SQL, which raises on an
\* unusable session
Readable(st, key) == st.usable \/ key \in st.fresh

Load(st, key) == IF st.usable THEN [st EXCEPT !.fresh = @ \cup {key}] ELSE st

Committed(st, db) == st.usable /\ db = "ok"

\* a commit whose failure leaves the session as it was, pending changes
\* included
commit_without_rollback(st, db) ==
    IF db = "ok" THEN [st EXCEPT !.db = st.mem, !.fresh = {}] ELSE st

commit(st, db) ==
    IF ~st.usable THEN st
    ELSE IF db = "ok" THEN [st EXCEPT !.db = st.mem, !.fresh = {}]
    ELSE IF db = "flush_error"
         THEN [st EXCEPT !.mem = st.db, !.usable = FALSE, !.fresh = {}]
    ELSE [st EXCEPT !.usable = FALSE]

Counters(target) ==
    [success_count |-> target.success_count,
     failure_count |-> target.failure_count]

NewDelivery(w, event_type, payload, status_code) ==
    [webhook_id |-> w,
     event |-> event_type,
     payload |-> payload,
     status_code |-> status_code,
     retry_count |-> 0,
     created_at |-> now]

\* a handler of failed attempts that stores the row and leaves the counter
handle_delivery_error_uncounted(st, w, event_type, payload, db) ==
    IF ~Readable(st, WebhookKey(w))
    THEN [st |-> st, success |-> FALSE, raised |-> TRUE]
    ELSE
        LET s1 == Load(st, WebhookKey(w))
            row == NewDelivery(w, event_type,
                               [event |-> event_type, data |-> payload], None)
            s2 == [s1 EXCEPT
                     !.mem.deliveries = Append(@, row),
                     !.mem.webhooks[w] =
                         [@ EXCEPT !.last_triggered = Some(now)]]
            s3 == commit(s2, db)
        IN  [st |-> s3,
             success |-> FALSE,
             raised |-> ~Committed(s2, db) /\ ~Readable(s3, WebhookKey(w))]

handle_delivery_error(st, w, event_type, payload, db) ==
    IF ~Readable(st, WebhookKey(w))
    THEN [st |-> st, success |-> FALSE, raised |-> TRUE]
    ELSE
        LET s1 == Load(st, WebhookKey(w))
            row == NewDelivery(w, event_type,
                               [event |-> event_type, data |-> payload], None)
            s2 == [s1 EXCEPT
                     !.mem.deliveries = Append(@, row),
                     !.mem.webhooks[w] =
                         [@ EXCEPT !.last_triggered = Some(now),
                                   !.failure_count = @ + 1]]
            s3 == commit(s2, db)
        IN  [st |-> s3,
             success |-> FALSE,
             raised |-> ~Committed(s2, db) /\ ~Readable(s3, WebhookKey(w))]

deliver_to_webhook(st, w, event_type, payload, out) ==
    IF ~Readable(st, WebhookKey(w))
    THEN [st |-> st, success |-> FALSE, raised |-> TRUE]
    ELSE
        LET s1 == Load(st, WebhookKey(w))
            target == s1.mem.webhooks[w]
            headers == build_headers(target, w, event_type, payload)
            body == request_data(event_type, payload)
            ended ==
                IF out.http.kind = "response"
                THEN
                    LET code == out.http.status_code
                        row == NewDelivery(w, event_type, body, Some(code))
                        s2 == [s1 EXCEPT
                                 !.mem.deliveries = Append(@, row),
                                 !.mem.webhooks[w] =
                                     [@ EXCEPT
                                        !.last_triggered = Some(now),
                                        !.success_count =
                                            IF is_success(code) THEN @ + 1 ELSE @,
                                        !.failure_count =
                                            IF is_success(code) THEN @ ELSE @ + 1]]
                        s3 == commit(s2, out.db)
                    IN  IF Committed(s2, out.db)
                        THEN [st |-> s3, success |-> is_success(code),
                              raised |-> FALSE]
                        ELSE handle_delivery_error(s3, w, event_type, payload,
                                                   out.db)
                ELSE handle_delivery_error(s1, w, event_type, payload, out.db)
            call == [webhook_id |-> w,
                     headers |-> headers,
                     body |-> body,
                     outcome |-> out.http,
                     recorded |-> st.usable /\ out.db = "ok",
                     success |-> ended.success,
                     raised |-> ended.raised,
                     before |-> Counters(st.db.webhooks[w]),
                     after |-> Counters(ended.st.db.webhooks[w])]
        IN  [ended EXCEPT !.st.wire = Append(@, call)]

\* Webhook.query.filter(is_active == True, events.contains([event_type]))
matches_any_event(target, event_type) == target.is_active

matches(target, event_type) ==
    target.is_active /\ event_type \in target.events

matching_webhooks(event_type) ==
    {w \in DOMAIN webhooks : matches(webhooks[w], event_type)}

\* the rows of a query, in primary-key order
RECURSIVE Ascending(_)
Ascending(S) ==
    IF S = {} THEN <<>>
    ELSE LET least == CHOOSE x \in S : \A y \in S : x <= y
         IN <<least>> \o Ascending(S \ {least})

\* the loop of deliver_event over the webhooks still to do
RECURSIVE deliver_each(_, _, _, _, _)
deliver_each(acc, todo, event_type, payload, outs) ==
    IF todo = <<>> \/ acc.raised THEN acc
    ELSE
        LET r == deliver_to_webhook(acc.st, Head(todo), event_type, payload,
                                    outs[Head(todo)])
        IN  deliver_each(
                [st |-> r.st,
                 raised |-> r.raised,
                 successful |-> acc.successful + IF r.success THEN 1 ELSE 0,
                 failed |-> acc.failed + IF r.success THEN 0 ELSE 1],
                Tail(todo), event_type, payload, outs)

Persist(st) ==
    /\ webhooks' = st.db.webhooks
    /\ deliveries' = st.db.deliveries
    /\ wire' = st.wire

DeliverEvent(event_type, payload, outs) ==
    LET found == matching_webhooks(event_type)
        call == [op |-> "deliver_event", event |-> event_type,
                 from |-> Len(wire)]
    IN
    /\ app = "factory"
    /\ IF found = {}
       THEN /\ last' = call @@
                       [result |-> [success |-> TRUE, deliveries |-> 0]]
            /\ UNCHANGED hookVars
       ELSE LET start == OpenSession({WebhookKey(w) : w \in found})
                end == deliver_each([st |-> start, raised |-> FALSE,
                                     successful |-> 0, failed |-> 0],
                                    Ascending(found), event_type, payload, outs)
            IN  /\ Persist(end.st)
                /\ last' = call @@
                     [result |->
                        IF end.raised THEN [success |-> FALSE]
                        ELSE [success |-> TRUE,
                              deliveries |-> Cardinality(found),
                              successful |-> end.successful,
                              failed |-> end.failed]]
    /\ UNCHANGED <<app, now, authVars, dbFaulty, workers, projVars>>

test_payload(w) ==
    << <<"event", Str("test")>>,
       <<"timestamp", Num(now)>>,
       <<"data", Obj(<< <<"message", Str("This is a test webhook delivery")>>,
                        <<"webhook_id", Num(w)>>,
                        <<"webhook_name", Str(webhooks[w].name)>> >>)>> >>

TestWebhook(w, out) ==
    LET call == [op |-> "test_webhook", webhook_id |-> w, from |-> Len(wire)]
    IN
    /\ app = "factory"
    /\ IF ~webhooks[w].is_active
       THEN /\ last' = call @@ [result |-> [status |-> 400]]
            /\ UNCHANGED hookVars
       ELSE LET end == deliver_to_webhook(OpenSession({WebhookKey(w)}), w,
                                          "test", test_payload(w), out)
            IN  /\ Persist(end.st)
                /\ last' = call @@
                     [result |-> IF end.raised THEN [status |-> 500]
                                 ELSE [status |-> 200, success |-> end.success]]
    /\ UNCHANGED <<app, now, authVars, dbFaulty, workers, projVars>>

\* the filter with retry_count <= max_retries: a row at the limit is kept
failed_deliveries_at_limit(max_retries) ==
    {i \in Indexes(deliveries) :
        /\ deliveries[i].status_code = None
        /\ deliveries[i].retry_count <= max_retries}

\* WebhookDelivery.query.filter(status_code.is_(None), retry_count < max_retries)
failed_deliveries(max_retries) ==
    {i \in Indexes(deliveries) :
        /\ deliveries[i].status_code = None
        /\ deliveries[i].retry_count < max_retries}

\* a retry that sends the empty payload whatever the row holds
retry_payload_empty(delivery) == <<>>

\* delivery.payload.get('data', {}) if delivery.payload else {}
retry_payload(delivery) ==
    IF "data" \in DOMAIN delivery.payload THEN delivery.payload.data ELSE <<>>

\* the loop of retry_failed_deliveries over the rows still to do
RECURSIVE retry_each(_, _, _)
retry_each(acc, todo, outs) ==
    IF todo = <<>> \/ acc.raised THEN acc
    ELSE
        LET i == Head(todo)
            st == acc.st
        IN
        IF ~Readable(st, DeliveryKey(i)) THEN [acc EXCEPT !.raised = TRUE]
        ELSE
            LET s1 == Load(st, DeliveryKey(i))
                delivery == s1.mem.deliveries[i]
                w == delivery.webhook_id
            IN
            IF ~Readable(s1, WebhookKey(w)) THEN [acc EXCEPT !.raised = TRUE]
            ELSE IF \/ w \notin DOMAIN s1.mem.webhooks
                    \/ ~s1.mem.webhooks[w].is_active
                 THEN retry_each([acc EXCEPT !.st = Load(s1, WebhookKey(w))],
                                 Tail(todo), outs)
            ELSE
                LET r == deliver_to_webhook(Load(s1, WebhookKey(w)), w,
                                            delivery.event,
                                            retry_payload(delivery), outs[i])
                IN
                IF r.raised \/ ~Readable(r.st, DeliveryKey(i))
                THEN [acc EXCEPT !.st = r.st, !.raised = TRUE]
                ELSE
                    LET s2 == Load(r.st, DeliveryKey(i))
                        s3 == [s2 EXCEPT !.mem.deliveries[i] =
                                 [@ EXCEPT
                                    !.retry_count = @ + 1,
                                    !.status_code =
                                        IF r.success THEN Some(RETRIED_STATUS)
                                        ELSE @]]
                    IN  retry_each(
                            [st |-> s3,
                             raised |-> FALSE,
                             successful |->
                                acc.successful + IF r.success THEN 1 ELSE 0,
                             failed |-> acc.failed + IF r.success THEN 0 ELSE 1],
                            Tail(todo), outs)

\* the rows of found that the loop re-attempts
Retried(found) ==
    {i \in found : /\ deliveries[i].webhook_id \in DOMAIN webhooks
                   /\ webhooks[deliveries[i].webhook_id].is_active}

RetryFailedDeliveries(max_retries, outs, db) ==
    LET found == failed_deliveries(max_retries)
        call == [op |-> "retry_failed_deliveries", max_retries |-> max_retries,
                 from |-> Len(wire)]
    IN
    /\ app = "factory"
    /\ IF found = {}
       THEN /\ last' = call @@ [result |-> [success |-> TRUE, retried |-> 0]]
            /\ UNCHANGED hookVars
       ELSE LET start == OpenSession({DeliveryKey(i) : i \in found})
                end == retry_each([st |-> start, raised |-> FALSE,
                                   successful |-> 0, failed |-> 0],
                                  Ascending(found), outs)
                saved == commit(end.st, db)
                ok == ~end.raised /\ Committed(end.st, db)
            IN  /\ Persist(IF end.raised THEN end.st ELSE saved)
                /\ last' = call @@
                     [result |->
                        IF ok
                        THEN [success |-> TRUE,
                              retried |-> Cardinality(found),
                              successful |-> end.successful,
                              failed |-> end.failed]
                        ELSE [success |-> FALSE]]
    /\ UNCHANGED <<app, now, authVars, dbFaulty, workers, projVars>>

is_old_or_at_cutoff(row, cutoff_date) == row.created_at <= cutoff_date

is_old(row, cutoff_date) == row.created_at < cutoff_date

CleanupOldDeliveries(days, db) ==
    LET cutoff_date == now - days * MinutesPerDay
        count == Cardinality({i \in Indexes(deliveries) :
                                 is_old(deliveries[i], cutoff_date)})
        kept == SelectSeq(deliveries, LAMBDA row : ~is_old(row, cutoff_date))
    IN
    /\ app = "factory"
    /\ deliveries' = IF db = "ok" THEN kept ELSE deliveries
    /\ last' = [op |-> "cleanup_old_deliveries", days |-> days,
                result |-> IF db = "ok"
                           THEN [success |-> TRUE, deleted |-> count]
                           ELSE [success |-> FALSE]]
    /\ UNCHANGED <<app, now, authVars, dbFaulty, workers, projVars, webhooks, wire>>

----------------------------------------------------------------------------
(* The webhook engine's specifications *)

InitWebhooks ==
    [w \in WebhookIds |->
        [name |-> IF w = 1 THEN "ci" ELSE IF w = 2 THEN "audit" ELSE "legacy",
         user_id |-> IF w = 2 THEN 1 ELSE 2,
         is_active |-> w # 3,
         events |-> IF w = 1 THEN {"deployment.completed", "user.login"}
                    ELSE IF w = 2 THEN {"deployment.completed"}
                    ELSE {"deployment.completed", "project.deleted"},
         secret |-> IF w = 2 THEN None ELSE Some("s3cret"),
         success_count |-> 0,
         failure_count |-> 0,
         last_triggered |-> None]]

\* the webhooks table as the API left it: two active webhooks, one of them
\* without a secret, and an inactive one; no delivery yet
InitHooks(faulty) ==
    /\ app = "factory"
    /\ now = 0
    /\ users = InitUsers
    /\ sessions = {}
    /\ resets = <<>>
    /\ attempts = [ok |-> 0, failed |-> 0]
    /\ cookie = NoCookie
    /\ nextSession = 1
    /\ nextToken = 1
    /\ streak = [u \in UserIds |-> 0]
    /\ lockDeadline = [u \in UserIds |-> None]
    /\ spent = {}
    /\ superseded = {}
    /\ requested = {}
    /\ dbFaulty = faulty
    /\ workers = NoWorkers
    /\ projects = InitProjects
    /\ deployments = {}
    /\ webhooks = InitWebhooks
    /\ deliveries = <<>>
    /\ wire = <<>>
    /\ last = [op |-> "init"]

CleanupDays == {0, 1, DEFAULT_CLEANUP_DAYS}
MaxRetriesArgs == {1, DEFAULT_MAX_RETRIES}

Outcomes(https) == [http : https, db : DbOutcomes]

DeliverEvents(payloads, https, most) ==
    \E event_type \in EventTypes, payload \in payloads :
        \E outs \in [matching_webhooks(event_type) -> Outcomes(https)] :
            /\ Len(wire) + Cardinality(matching_webhooks(event_type)) <= most
            /\ DeliverEvent(event_type, payload, outs)

TestWebhooks(https, most) ==
    \E w \in WebhookIds, out \in Outcomes(https) :
        /\ Len(wire) < most
        /\ TestWebhook(w, out)

RetryDeliveries(https, most) ==
    \E max_retries \in MaxRetriesArgs, db \in DbOutcomes :
        \E outs \in [Retried(failed_deliveries(max_retries)) -> Outcomes(https)] :
            /\ Len(wire) + Cardinality(Retried(failed_deliveries(max_retries)))
                  <= most
            /\ RetryFailedDeliveries(max_retries, outs, db)

CleanupDeliveries(choices) ==
    \E days \in choices, db \in DbOutcomes : CleanupOldDeliveries(days, db)

OnePayload == {<<<<"repo", Str("pak")>>, <<"commit", Str("abc123")>>>>}

FewOutcomes == {Response(204), [kind |-> "timeout"]}

\* deliveries, tests and retries with every HTTP outcome
DoDeliverEvent == DeliverEvents(OnePayload, HttpOutcomes, MaxWire)

DoTestWebhook == TestWebhooks(HttpOutcomes, MaxWire)

DoRetryFailedDeliveries == RetryDeliveries(HttpOutcomes, MaxWire)

NextHooks ==
    \/ DoDeliverEvent
    \/ DoTestWebhook
    \/ DoRetryFailedDeliveries

SpecHooks == InitHooks(FALSE) /\ [][NextHooks]_vars

\* deliveries and retries of several payloads at several times
DoDeliverPayloads == DeliverEvents(Payloads, FewOutcomes, MaxSigned)

DoRetryPayloads == RetryDeliveries(FewOutcomes, MaxSigned)

TickHooks == Tick(HookTick, HookHorizon)

NextSigning ==
    \/ DoDeliverPayloads
    \/ DoRetryPayloads
    \/ TickHooks

SpecSigning == InitHooks(FALSE) /\ [][NextSigning]_vars

\* deliveries over the days, and the cleanup
DoDeliverSome == DeliverEvents(OnePayload, FewOutcomes, MaxWire)

DoCleanupOldDeliveries == CleanupDeliveries(CleanupDays)

TickCleanup == Tick(CleanupTick, CleanupHorizon)

NextCleanup ==
    \/ DoDeliverSome
    \/ DoCleanupOldDeliveries
    \/ TickCleanup

SpecCleanup == InitHooks(FALSE) /\ [][NextCleanup]_vars

\* the engine on a database whose writes may fail
DoDeliverFaulty == DeliverEvents(OnePayload, FewOutcomes, MaxWire)

DoTestFaulty == TestWebhooks(FewOutcomes, MaxWire)

DoRetryFaulty == RetryDeliveries(FewOutcomes, MaxWire)

DoCleanupFaulty == CleanupDeliveries({DEFAULT_CLEANUP_DAYS})

NextHooksFaulty ==
    \/ DoDeliverFaulty
    \/ DoTestFaulty
    \/ DoRetryFaulty
    \/ DoCleanupFaulty

SpecHooksFaulty == InitHooks(TRUE) /\ [][NextHooksFaulty]_vars

----------------------------------------------------------------------------
(* Lockout *)

UserOf(email) == Val(UserByEmail(email))

\* C1: the fifth consecutive wrong-password attempt for a user leaves
\* locked_until set to a time later than now, and every login attempt for
\* that user made before that time is refused and creates no session and no
\* login cookie, whether or not its password is correct.
C1_LockoutAfterFiveFailures ==
    [][\A u \in UserIds :
          /\ (streak[u] = MAX_FAILED_ATTEMPTS - 1
                /\ streak'[u] = MAX_FAILED_ATTEMPTS)
             => /\ users'[u].locked_until # None
                /\ Val(users'[u].locked_until) > now'
                /\ lockDeadline'[u] = users'[u].locked_until
          /\ (/\ last'.op = "login"
              /\ last'.email = users[u].email
              /\ lockDeadline[u] # None
              /\ now < Val(lockDeadline[u]))
             => /\ last'.result # "success"
                /\ sessions' = sessions
                /\ cookie' = cookie]_vars

\* a login with the correct password was refused before the deadline
C1_Witness ==
    /\ last.op = "login"
    /\ UserByEmail(last.email) # None
    /\ check_password(users[UserOf(last.email)], last.password)
    /\ lockDeadline[UserOf(last.email)] # None
    /\ now < Val(lockDeadline[UserOf(last.email)])
    /\ streak[UserOf(last.email)] >= MAX_FAILED_ATTEMPTS
    /\ last.result = "locked"

\* C2: after a successful login the user's failed_attempts is 0 and
\* locked_until is empty, whatever they were before.
C2_SuccessResetsLockout ==
    (last.op = "login" /\ last.result = "success")
    => /\ users[UserOf(last.email)].failed_attempts = 0
       /\ users[UserOf(last.email)].locked_until = None

\* a successful login of a user who had failed five times and whose lock
\* had run out
C2_Witness ==
    /\ last.op = "login"
    /\ last.result = "success"
    /\ Val(last.before).failed_attempts >= MAX_FAILED_ATTEMPTS
    /\ Val(last.before).locked_until # None
    /\ users[UserOf(last.email)].failed_attempts = 0
    /\ users[UserOf(last.email)].locked_until = None

----------------------------------------------------------------------------
(* Password reset tokens *)

\* C3: a reset_password call with an unused, unexpired token and a complete
\* form succeeds, sets the user's password to the one given and marks the
\* token used, so that it no longer validates; every later call with that
\* token is refused as invalid-or-expired and changes neither the users nor
\* the tokens.
C3_ResetTokenSingleUse ==
    [][last'.op = "reset_password" =>
         /\ (ValidReset(last'.token) /\ last'.complete)
            => /\ last'.result = "success"
               /\ LET i == find_reset(last'.token)
                      u == resets[i].user_id
                  IN /\ users'[u].password_hash =
                            generate_password_hash(Val(last'.password))
                     /\ resets'[i].used
                     /\ resets'[i].token = last'.token
               /\ last'.token \in spent'
               /\ \A j \in Indexes(resets') :
                     resets'[j].token = last'.token => resets'[j].used
         /\ last'.token \in spent
            => /\ last'.result = "invalid_or_expired"
               /\ users' = users
               /\ resets' = resets]_vars

\* a second call with a token that a first call consumed was refused
C3_Witness ==
    /\ last.op = "reset_password"
    /\ last.token \in spent
    /\ last.complete
    /\ last.result = "invalid_or_expired"
    /\ \E i \in Indexes(resets) : resets[i].token = last.token /\ resets[i].used

AtMostOneUnused ==
    \A u \in UserIds : Cardinality(UnusedTokens(u)) <= 1

\* C4 as stated: every request for a user leaves at most one unused token
\* per user, and a token that was unused when a later request for its user
\* was made no longer validates.
C4_AnyRequestInvalidates ==
    /\ AtMostOneUnused
    /\ \A t \in requested : find_reset(t) = 0

\* C4 as amended: every user has at most one unused token, and a token that
\* was unused when a later request issued a new token for its user (in
\* forgot_password: a request for an active user) no longer validates.
C4_IssuingRequestInvalidates ==
    /\ AtMostOneUnused
    /\ \A u \in UserIds : \A i, j \in Indexes(resets) :
          (/\ resets[i].user_id = u /\ resets[j].user_id = u
           /\ ~resets[i].used /\ ~resets[j].used) => i = j
    /\ \A t \in superseded : find_reset(t) = 0 /\ ~ValidReset(t)

\* a second request replaced a user's unused token by a new one
C4_Witness ==
    /\ last.op = "forgot_password"
    /\ last.token # None
    /\ superseded # {}
    /\ UserByEmail(last.email) # None
    /\ UnusedTokens(UserOf(last.email)) = {Val(last.token)}

----------------------------------------------------------------------------
(* Webhook deliveries *)

Answered2xx(call) ==
    /\ call.outcome.kind = "response"
    /\ call.outcome.status_code \in 200..299

CallsTo(w, succeeded) ==
    {i \in Indexes(wire) :
        wire[i].webhook_id = w /\ Answered2xx(wire[i]) = succeeded}

\* C5: every call of deliver_to_webhook adds exactly 1 to exactly one of the
\* webhook's counters, success_count if and only if the endpoint answered
\* with a status in [200, 300), failure_count for any other status and for
\* a transport failure; the success flag it returns says which; so each
\* counter is the number of calls that ended that way.
C5_ExactlyOneCounterPerCall ==
    /\ \A i \in Indexes(wire) :
          LET call == wire[i]
              ok == Answered2xx(call)
          IN  /\ call.success = ok
              /\ call.after.success_count
                    = call.before.success_count + IF ok THEN 1 ELSE 0
              /\ call.after.failure_count
                    = call.before.failure_count + IF ok THEN 0 ELSE 1
    /\ \A w \in WebhookIds :
          /\ webhooks[w].success_count = Cardinality(CallsTo(w, TRUE))
          /\ webhooks[w].failure_count = Cardinality(CallsTo(w, FALSE))

\* one delivery answered 204 and counted as a success, another answered 300
\* and counted as a failure
C5_Witness ==
    /\ last.op = "deliver_event"
    /\ \E i, j \in Indexes(wire) :
          /\ wire[i].outcome = Response(204)
          /\ wire[i].success
          /\ webhooks[wire[i].webhook_id].success_count = 1
          /\ webhooks[wire[i].webhook_id].failure_count = 0
          /\ wire[j].outcome = Response(300)
          /\ ~wire[j].success
          /\ webhooks[wire[j].webhook_id].failure_count = 1
          /\ webhooks[wire[j].webhook_id].success_count = 0

\* the calls of deliver_to_webhook the last operation made
LastCalls == (last.from + 1)..Len(wire)

Subscribed(w, event_type) ==
    webhooks[w].is_active /\ event_type \in webhooks[w].events

\* C6: deliver_event attempts every active webhook subscribed to the event
\* exactly once, whatever the outcome of the other attempts, and reports
\* success with deliveries = successful + failed = the number of those
\* webhooks.
C6_EveryMatchingWebhookAttempted ==
    last.op = "deliver_event" =>
        LET found == {w \in WebhookIds : Subscribed(w, last.event)}
        IN  /\ \A w \in found :
                  Cardinality({i \in LastCalls : wire[i].webhook_id = w}) = 1
            /\ last.result.success
            /\ last.result.deliveries = Cardinality(found)
            /\ found # {} =>
                  last.result.successful + last.result.failed
                      = last.result.deliveries

\* C7: a deliver_event for an event that no active webhook subscribes to
\* returns success with deliveries = 0, sends nothing, writes no delivery
\* row and changes no webhook; no deliver_event sends to a webhook that is
\* inactive or not subscribed to its event, and no operation sends to an
\* inactive webhook.
C7_NoMatchNoEffect ==
    [][ /\ last'.op = "deliver_event" =>
            /\ (\A w \in WebhookIds : ~Subscribed(w, last'.event)) =>
                   /\ last'.result = [success |-> TRUE, deliveries |-> 0]
                   /\ UNCHANGED <<webhooks, deliveries, wire>>
            /\ \A i \in (Len(wire) + 1)..Len(wire') :
                   Subscribed(wire'[i].webhook_id, last'.event)
        /\ \A i \in (Len(wire) + 1)..Len(wire') :
               webhooks[wire'[i].webhook_id].is_active
      ]_vars

\* after "user.login" went to its one subscriber, "project.deleted", which
\* only the inactive webhook subscribes to, is delivered to nobody
C7_Witness ==
    /\ last.op = "deliver_event"
    /\ last.event = "project.deleted"
    /\ last.result = [success |-> TRUE, deliveries |-> 0]
    /\ \E w \in WebhookIds :
          ~webhooks[w].is_active /\ last.event \in webhooks[w].events
    /\ Len(wire) = 1
    /\ wire[1].body.event = "user.login"
    /\ Len(deliveries) = 1
    /\ \E w \in WebhookIds :
          webhooks[w].is_active /\ "user.login" \notin webhooks[w].events

\* C8: cleanup_old_deliveries(days) deletes exactly the rows created earlier
\* than now minus days and keeps every other row as it is, returns the
\* number of rows it deleted, and deletes nothing when called again at once.
C8_CleanupDeletesExactlyOld ==
    [][ last'.op = "cleanup_old_deliveries" =>
            LET cutoff == now - last'.days * MinutesPerDay
                newer(row) == row.created_at >= cutoff
            IN  /\ deliveries' = SelectSeq(deliveries, newer)
                /\ last'.result.success
                /\ last'.result.deleted = Len(deliveries) - Len(deliveries')
                /\ webhooks' = webhooks
                /\ (last.op = "cleanup_old_deliveries" /\ last.days = last'.days)
                      => /\ last'.result.deleted = 0
                         /\ deliveries' = deliveries
      ]_vars

\* a cleanup deleted a row and kept one created exactly at the cutoff
C8_Witness ==
    /\ last.op = "cleanup_old_deliveries"
    /\ last.result.deleted > 0
    /\ \E i \in Indexes(deliveries) :
          deliveries[i].created_at = now - last.days * MinutesPerDay

\* two JSON objects with the same members
SameObject(a, b) ==
    {a[i] : i \in Indexes(a)} = {b[i] : i \in Indexes(b)}

\* C9: every call to a webhook that has a secret carries a signature, every
\* call to one without carries none, and two calls with the same secret and
\* the same payload carry the same signature, whatever their event names
\* and timestamps; retries are calls like the others.
C9_SignatureOfSecretAndPayload ==
    \A i \in Indexes(wire) :
        LET call == wire[i]
            secret == webhooks[call.webhook_id].secret
        IN  /\ (secret # None) <=> (call.headers.signature # None)
            /\ \A j \in Indexes(wire) :
                  ( /\ webhooks[wire[j].webhook_id].secret = secret
                    /\ SameObject(wire[j].body.data, call.body.data) )
                  => wire[j].headers.signature = call.headers.signature

\* a delivery to the webhook with a secret failed and was retried later,
\* then another event with the same payload, its keys in another order,
\* went to the same webhook: three calls, one signature; the call to the
\* webhook without a secret carried none
C9_Witness ==
    /\ \E i, j, k \in Indexes(wire) :
          /\ i < j /\ j < k
          /\ wire[i].webhook_id = wire[j].webhook_id
          /\ wire[i].webhook_id = wire[k].webhook_id
          /\ webhooks[wire[i].webhook_id].secret # None
          /\ wire[i].outcome.kind = "timeout"
          /\ wire[j].body.event = wire[i].body.event
          /\ wire[j].body.timestamp > wire[i].body.timestamp
          /\ \E d \in Indexes(deliveries) :
                /\ deliveries[d].created_at = wire[i].body.timestamp
                /\ deliveries[d].retry_count = 1
          /\ wire[k].body.event # wire[i].body.event
          /\ wire[k].body.data # wire[i].body.data
          /\ SameObject(wire[k].body.data, wire[i].body.data)
          /\ wire[i].headers.signature # None
          /\ wire[j].headers.signature = wire[i].headers.signature
          /\ wire[k].headers.signature = wire[i].headers.signature
    /\ \E n \in Indexes(wire) :
          /\ webhooks[wire[n].webhook_id].secret = None
          /\ wire[n].headers.signature = None

----------------------------------------------------------------------------
(* Sessions *)

\* C10: a request whose cookie was issued with a session row that has
\* expired (and is still in the table) is not treated as authenticated.
C10_ExpiredSessionNotAuthenticated ==
    (last.op = "request" /\ \E s \in PresentedSession : is_expired(s))
    => ~last.authenticated

----------------------------------------------------------------------------
(* Password-reset requests: what the caller is shown *)

GenericNotice ==
    [category |-> "info",
     message |-> "If an account with that email exists, a password reset link has been sent"]

\* the messages a forgot-password request flashes to its caller
ForgotFlashes(request) ==
    IF request.via = "auth"
    THEN IF request.token # None
         THEN <<[category |-> "info", message |-> "Password reset token",
                 token |-> Val(request.token)],
                GenericNotice>>
         ELSE <<GenericNotice>>
    ELSE IF request.result = "user_not_found"
         THEN <<[category |-> "error", message |-> "User not found"]>>
         ELSE <<[category |-> "success",
                 message |-> "Password reset instructions sent"]>>

\* what the same handler flashes for an email that belongs to no user
UnknownEmailFlashes(via) ==
    IF via = "auth" THEN <<GenericNotice>>
    ELSE <<[category |-> "error", message |-> "User not found"]>>

\* C11: a password-reset request shows its caller the same response for an
\* email that belongs to a user as for an email that belongs to none.
C11_ResetRequestHidesExistence ==
    last.op = "forgot_password" =>
        ForgotFlashes(last) = UnknownEmailFlashes(last.via)

----------------------------------------------------------------------------
(* Logins of a deactivated account. Both applications open the database    *)
(* sqlite:///pak_herd.db by default, so an account that admin.py           *)
(* toggle_user_status deactivated is also met by PakHerd.login.            *)

InitDeactivated ==
    /\ app \in {"factory", "herd"}
    /\ now = 0
    /\ users = [InitUsers EXCEPT ![2].is_active = FALSE]
    /\ sessions = {}
    /\ resets = <<>>
    /\ attempts = [ok |-> 0, failed |-> 0]
    /\ cookie = NoCookie
    /\ nextSession = 1
    /\ nextToken = 1
    /\ streak = [u \in UserIds |-> 0]
    /\ lockDeadline = [u \in UserIds |-> None]
    /\ spent = {}
    /\ superseded = {}
    /\ requested = {}
    /\ dbFaulty = FALSE
    /\ workers = NoWorkers
    /\ projects = InitProjects
    /\ deployments = {}
    /\ webhooks = <<>>
    /\ deliveries = <<>>
    /\ wire = <<>>
    /\ last = [op |-> "init"]

NextDeactivated ==
    \/ DoAuthLogin
    \/ DoApiLogin
    \/ DoHerdLogin
    \/ TickLock

SpecDeactivated == InitDeactivated /\ [][NextDeactivated]_vars

\* C12: a login with the correct password for a user whose is_active flag
\* is false (and who is not locked) fails as account-disabled, creates no
\* session and leaves failed_attempts and locked_until as they were.
C12_DisabledLoginRefused ==
    [][ ( /\ last'.op = "login"
          /\ UserByEmail(last'.email) # None
          /\ ~users[UserOf(last'.email)].is_active
          /\ check_password(users[UserOf(last'.email)], last'.password)
          /\ ~is_locked(users[UserOf(last'.email)]) )
        => /\ last'.result = "disabled"
           /\ sessions' = sessions
           /\ cookie' = cookie
           /\ users'[UserOf(last'.email)].failed_attempts
                 = users[UserOf(last'.email)].failed_attempts
           /\ users'[UserOf(last'.email)].locked_until
                 = users[UserOf(last'.email)].locked_until
      ]_vars

----------------------------------------------------------------------------
(* Logout of a user who signed in twice *)

\* blueprints/auth.py logout without a signed-in user: login_required sends
\* the caller to the login page and the handler does not run
AuthLogoutAnonymous ==
    /\ app = "factory"
    /\ cookie.user_id = None
    /\ last' = [op |-> "logout", via |-> "auth", result |-> "login_required"]
    /\ UNCHANGED <<app, now, authVars, dbFaulty, workers, projVars, hookVars>>

LogoutRoute == AuthLogout \/ AuthLogoutAnonymous

\* the administrator signed in from two browsers; the cookie is the second
\* browser's
InitSignedInTwice ==
    /\ app \in {"factory", "herd"}
    /\ now = 0
    /\ users = InitUsers
    /\ sessions = {[session_id |-> 1, user_id |-> 1,
                    expires_at |-> SESSION_DAYS * MinutesPerDay],
                   [session_id |-> 2, user_id |-> 1,
                    expires_at |-> SESSION_DAYS * MinutesPerDay]}
    /\ resets = <<>>
    /\ attempts = [ok |-> 2, failed |-> 0]
    /\ cookie = [user_id |-> Some(1), session_id |-> Some(2)]
    /\ nextSession = 3
    /\ nextToken = 1
    /\ streak = [u \in UserIds |-> 0]
    /\ lockDeadline = [u \in UserIds |-> None]
    /\ spent = {}
    /\ superseded = {}
    /\ requested = {}
    /\ dbFaulty = FALSE
    /\ workers = NoWorkers
    /\ projects = InitProjects
    /\ deployments = {}
    /\ webhooks = <<>>
    /\ deliveries = <<>>
    /\ wire = <<>>
    /\ last = [op |-> "init"]

NextLogout ==
    \/ LogoutRoute
    \/ HerdLogout
    \/ DoSessionLogin
    \/ Request
    \/ TickSession

SpecLogout == InitSignedInTwice /\ [][NextLogout]_vars

SessionsOf(rows, who) ==
    IF who = None THEN {} ELSE {s \in rows : s.user_id = Val(who)}

\* C13: a logout removes every session row of the current user and no row
\* of anyone else; when the user has no session it is not an error and
\* changes nothing in the tables.
C13_LogoutRemovesEverySession ==
    [][ last'.op = "logout" =>
            /\ SessionsOf(sessions', cookie.user_id) = {}
            /\ sessions \ SessionsOf(sessions, cookie.user_id) \subseteq sessions'
            /\ sessions' \subseteq sessions
            /\ last'.result \in {"success", "login_required"}
            /\ SessionsOf(sessions, cookie.user_id) = {} =>
                  /\ sessions' = sessions
                  /\ users' = users
      ]_vars

----------------------------------------------------------------------------
(* The webhook engine and its callers *)

EngineOperations ==
    {"deliver_event", "retry_failed_deliveries", "cleanup_old_deliveries"}

\* C14: deliver_event, deliver_to_webhook, retry_failed_deliveries and
\* cleanup_old_deliveries return a result with a success flag in every
\* case, also when the database fails during bookkeeping, and never raise
\* to their caller.
C14_EngineNeverRaises ==
    /\ \A i \in Indexes(wire) : ~wire[i].raised
    /\ last.op \in EngineOperations => "success" \in DOMAIN last.result
    /\ (last.op = "test_webhook" /\ last.from < Len(wire))
          => "success" \in DOMAIN last.result

-----------------------------------------------------------------------------
(* Projects and deployments: listeners and handlers (factory application) *)

is_admin(user) == users[user].role = "admin"

\* the permission check of the project handlers
may_access_project(user, project) ==
    is_admin(user) \/ project.created_by = user

\* the permission check of the deployment handlers
may_access_deployment(user, deployment) ==
    is_admin(user) \/ deployment.user_id = user

\* a datetime of a deployment is a number of ticks, half seconds here, so
\* that a difference need not be a whole number of seconds
TICKS_PER_SECOND == 2

Stamp(minutes) == minutes * 60 * TICKS_PER_SECOND

\* int(delta.total_seconds()): the fraction is cut off, towards zero
int_total_seconds(delta) ==
    IF delta >= 0 THEN delta \div TICKS_PER_SECOND
    ELSE 0 - ((0 - delta) \div TICKS_PER_SECOND)

calculate_duration(d) ==
    IF d.started_at # None /\ d.completed_at # None
    THEN [d EXCEPT !.duration =
            Some(int_total_seconds(Val(d.completed_at) - Val(d.started_at)))]
    ELSE d

\* before_update listener of PakDeployment
update_deployment_stats(target) ==
    IF is_completed(target) /\ target.duration = None
    THEN calculate_duration(target)
    ELSE target

\* after_insert listener of PakDeployment: the project's row afterwards;
\* rows is the table with the new deployment in it
update_project_stats(project, target, rows) ==
    LET mine == DeploymentsOf(rows, target.project_id)
        total_deployments == Cardinality(mine)
        successful_deployments ==
            Cardinality({d \in mine : d.status = "success"})
        counted == [project EXCEPT !.deployment_count = @ + 1,
                                   !.last_deployment = Some(now)]
    IN IF total_deployments > 0
       THEN [counted EXCEPT !.success_rate =
                Rate(successful_deployments, total_deployments)]
       ELSE counted

NewProject(user, name) ==
    [name |-> name, created_by |-> user, deployment_count |-> 0,
     last_deployment |-> None, success_rate |-> DEFAULT_SUCCESS_RATE]

NewDeployment(id, project_id, user) ==
    [id |-> id, project_id |-> project_id, user_id |-> user,
     status |-> "running", started_at |-> None, completed_at |-> None,
     duration |-> None]

\* what a project handler answers with
ProjectBody(p, row) ==
    [id |-> p, name |-> row.name,
     deployment_count |-> row.deployment_count,
     success_rate |-> row.success_rate]

ProjectOp(op, user, id, result) ==
    [op |-> op, caller |-> user, id |-> id, result |-> result]

\* PackageList.post
CreateProject(user, name) ==
    /\ app = "factory"
    /\ IF \E p \in DOMAIN projects : projects[p].name = name
       THEN /\ last' = ProjectOp("create_project", user, None,
                                 [status |-> 400])
            /\ UNCHANGED projVars
       ELSE LET p == NextId(DOMAIN projects) IN
            /\ p \in ProjectIds
            /\ projects' = [q \in DOMAIN projects \cup {p} |->
                               IF q = p THEN NewProject(user, name)
                               ELSE projects[q]]
            /\ last' = ProjectOp("create_project", user, Some(p),
                                 [status |-> 201,
                                  body |-> ProjectBody(p, NewProject(user,
                                                                     name))])
            /\ UNCHANGED deployments
    /\ UNCHANGED <<app, now, authVars, dbFaulty, workers, hookVars>>

\* PackageDetail.get
GetProject(user, p) ==
    /\ app = "factory"
    /\ last' = ProjectOp("get_project", user, Some(p),
                  IF p \notin DOMAIN projects THEN [status |-> 404]
                  ELSE IF ~may_access_project(user, projects[p])
                  THEN [status |-> 403]
                  ELSE [status |-> 200,
                        body |-> ProjectBody(p, projects[p])])
    /\ UNCHANGED <<app, now, authVars, dbFaulty, workers, projVars, hookVars>>

\* PackageDetail.put
UpdateProject(user, p, name) ==
    /\ app = "factory"
    /\ IF p \notin DOMAIN projects
       THEN /\ last' = ProjectOp("update_project", user, Some(p),
                                 [status |-> 404])
            /\ UNCHANGED projVars
       ELSE IF ~may_access_project(user, projects[p])
       THEN /\ last' = ProjectOp("update_project", user, Some(p),
                                 [status |-> 403])
            /\ UNCHANGED projVars
       ELSE /\ projects' = [projects EXCEPT ![p].name = name]
            /\ last' = ProjectOp("update_project", user, Some(p),
                                 [status |-> 200,
                                  body |-> ProjectBody(p,
                                     [projects[p] EXCEPT !.name = name])])
            /\ UNCHANGED deployments
    /\ UNCHANGED <<app, now, authVars, dbFaulty, workers, hookVars>>

\* PackageDetail.delete; the deployments relationship cascades the delete
DeleteProject(user, p) ==
    /\ app = "factory"
    /\ IF p \notin DOMAIN projects
       THEN /\ last' = ProjectOp("delete_project", user, Some(p),
                                 [status |-> 404])
            /\ UNCHANGED projVars
       ELSE IF ~may_access_project(user, projects[p])
       THEN /\ last' = ProjectOp("delete_project", user, Some(p),
                                 [status |-> 403])
            /\ UNCHANGED projVars
       ELSE /\ projects' = [q \in DOMAIN projects \ {p} |-> projects[q]]
            /\ deployments' = deployments \ DeploymentsOf(deployments, p)
            /\ last' = ProjectOp("delete_project", user, Some(p),
                                 [status |-> 204])
    /\ UNCHANGED <<app, now, authVars, dbFaulty, workers, hookVars>>

DeploymentById(id) == {d \in deployments : d.id = id}

DeploymentBody(d) ==
    [id |-> d.id, project_id |-> d.project_id, status |-> d.status]

LogsBody(d) == [deployment_id |-> d.id, status |-> d.status]

\* DeploymentDetail.get and DeploymentLogs.get: the same checks, then the
\* body of the route
DeploymentRead(op, user, id) ==
    /\ app = "factory"
    /\ last' = ProjectOp(op, user, Some(id),
                  IF DeploymentById(id) = {} THEN [status |-> 404]
                  ELSE LET d == CHOOSE x \in DeploymentById(id) : TRUE IN
                       IF ~may_access_deployment(user, d)
                       THEN [status |-> 403]
                       ELSE [status |-> 200,
                             body |-> IF op = "get_deployment"
                                      THEN DeploymentBody(d)
                                      ELSE LogsBody(d)])
    /\ UNCHANGED <<app, now, authVars, dbFaulty, workers, projVars, hookVars>>

\* DeploymentDetail.get
GetDeployment(user, id) == DeploymentRead("get_deployment", user, id)

\* DeploymentLogs.get
GetDeploymentLogs(user, id) == DeploymentRead("get_deployment_logs", user, id)

TskOutcomes == {"executed", "raised"}

TskFiles == {None, Some("deploy.tsk")}

\* execute_project_tsk.  The record of the operation keeps what the handler's
\* session held when it answered: the project, and the project's deployments
\* with the status the handler had set.  Only what a commit wrote is in the
\* tables afterwards.
ExecuteProjectTsk(user, p, tsk_file, outcome) ==
    /\ app = "factory"
    /\ IF p \notin DOMAIN projects
       THEN \* NotFound is caught by the handler's own except clause
            /\ last' = ProjectOp("execute_project_tsk", user, Some(p),
                                 [status |-> 500])
            /\ UNCHANGED projVars
       ELSE IF ~may_access_project(user, projects[p])
       THEN /\ last' = ProjectOp("execute_project_tsk", user, Some(p),
                                 [status |-> 403])
            /\ UNCHANGED projVars
       ELSE IF tsk_file = None
       THEN /\ last' = ProjectOp("execute_project_tsk", user, Some(p),
                                 [status |-> 400])
            /\ UNCHANGED projVars
       ELSE LET id == NextId({d.id : d \in deployments})
                running == NewDeployment(id, p, user)
                inserted == deployments \cup {running}
                project == update_project_stats(projects[p], running,
                                                inserted)
                status == IF outcome = "executed" THEN "success"
                          ELSE "failed"
                updated == [running EXCEPT !.status = status,
                                           !.completed_at = Some(Stamp(now))]
                held == (deployments \cup {updated})
            IN  /\ Cardinality(deployments) < MaxDeployments
                /\ projects' = [projects EXCEPT ![p] = project]
                /\ deployments' =
                      IF outcome = "executed"
                      THEN inserted
                      ELSE deployments \cup {update_deployment_stats(updated)}
                /\ last' = ProjectOp("execute_project_tsk", user, Some(p),
                               [status |-> IF outcome = "executed" THEN 200
                                           ELSE 500,
                                deployment_id |-> id])
                           @@ [session |->
                                 [project |-> project,
                                  deployments |-> DeploymentsOf(held, p)]]
    /\ UNCHANGED <<app, now, authVars, dbFaulty, workers, hookVars>>

InitProjectsSpec ==
    /\ Init
    /\ app = "factory"

DoCreateProject ==
    \E user \in UserIds, name \in ProjectNames : CreateProject(user, name)

DoGetProject ==
    \E user \in UserIds, p \in ProjectIds : GetProject(user, p)

DoUpdateProject ==
    \E user \in UserIds, p \in ProjectIds, name \in ProjectNames :
        UpdateProject(user, p, name)

DoDeleteProject ==
    \E user \in UserIds, p \in ProjectIds : DeleteProject(user, p)

DoGetDeployment ==
    \E user \in UserIds, id \in 1..MaxDeployments : GetDeployment(user, id)

DoGetDeploymentLogs ==
    \E user \in UserIds, id \in 1..MaxDeployments :
        GetDeploymentLogs(user, id)

DoExecuteProjectTsk ==
    \E user \in UserIds, p \in ProjectIds, tsk_file \in TskFiles,
       outcome \in TskOutcomes :
        ExecuteProjectTsk(user, p, tsk_file, outcome)

NextProjects ==
    \/ DoCreateProject
    \/ DoGetProject
    \/ DoUpdateProject
    \/ DoDeleteProject
    \/ DoGetDeployment
    \/ DoGetDeploymentLogs
    \/ DoExecuteProjectTsk

SpecProjects == InitProjectsSpec /\ [][NextProjects]_vars

-----------------------------------------------------------------------------
(* C15: deployment statistics *)

\* the statistics of a project row equal the recomputation over rows
StatsRecomputed(project, rows) ==
    /\ project.deployment_count = Cardinality(rows)
    /\ rows # {} =>
          SameRate(project.success_rate,
                   Rate(Cardinality({d \in rows : d.status = "success"}),
                        Cardinality(rows)))

\* C15: after every insert of a deployment and after every update of a
\* deployment's status, the project's deployment_count equals the number of
\* its deployments and its success_rate equals 100 x (its deployments with
\* status success) / (all its deployments); this is stated of the tables and
\* of what the handler held when it had updated the status
C15_StatsEqualRecomputation ==
    /\ \A p \in DOMAIN projects :
          projects[p].deployment_count > 0 =>
              StatsRecomputed(projects[p], DeploymentsOf(deployments, p))
    /\ (last.op = "execute_project_tsk" /\ "session" \in DOMAIN last) =>
          StatsRecomputed(last.session.project, last.session.deployments)

-----------------------------------------------------------------------------
(* C16: access to projects, deployments and delivery histories *)

\* who calls a route of the webhooks blueprint: nobody signed in, or a user
Callers == {None} \cup {Some(u) : u \in UserIds}

DeliveriesOf(w) == {i \in Indexes(deliveries) : deliveries[i].webhook_id = w}

HistoryBody(w) ==
    {[id |-> i, event |-> deliveries[i].event,
      status_code |-> deliveries[i].status_code,
      retry_count |-> deliveries[i].retry_count] : i \in DeliveriesOf(w)}

\* webhook_deliveries
WebhookDeliveries(caller, w) ==
    /\ app = "factory"
    /\ last' = [op |-> "webhook_deliveries", caller |-> caller, id |-> Some(w),
                result |-> IF w \notin DOMAIN webhooks THEN [status |-> 404]
                           ELSE [status |-> 200, data |-> HistoryBody(w)]]
    /\ UNCHANGED <<app, now, authVars, dbFaulty, workers, projVars, hookVars>>

DoWebhookDeliveries ==
    \E caller \in Callers, w \in WebhookIds \cup {Len(webhooks) + 1} :
        WebhookDeliveries(caller, w)

DoTestSome == TestWebhooks(FewOutcomes, MaxWire)

NextHistory ==
    \/ DoTestSome
    \/ DoWebhookDeliveries

SpecHistory == InitHooks(FALSE) /\ [][NextHistory]_vars

PROJECT_ROUTES == {"get_project", "update_project", "delete_project"}

DEPLOYMENT_ROUTES == {"get_deployment", "get_deployment_logs"}

REFUSED == {401, 403}

\* the caller is an administrator or the owner
OwnerOrAdmin(caller, owner) ==
    users[caller].role = "admin" \/ owner = caller

\* C16: a user who is not an administrator reads, updates or deletes a
\* project, reads a deployment or its logs, and reads the delivery history of
\* a webhook only as its owner; any other caller is refused and nothing
\* changes; an administrator is served whatever the owner
C16_OwnerOrAdminOnly ==
    [][/\ (last'.op \in PROJECT_ROUTES
           /\ Val(last'.id) \in DOMAIN projects) =>
             IF OwnerOrAdmin(last'.caller, projects[Val(last'.id)].created_by)
             THEN last'.result.status \in {200, 204}
             ELSE /\ last'.result.status \in REFUSED
                  /\ UNCHANGED <<projVars, hookVars>>
       /\ (last'.op \in DEPLOYMENT_ROUTES
           /\ DeploymentById(Val(last'.id)) # {}) =>
             IF \E d \in DeploymentById(Val(last'.id)) :
                   OwnerOrAdmin(last'.caller, d.user_id)
             THEN last'.result.status = 200
             ELSE /\ last'.result.status \in REFUSED
                  /\ UNCHANGED <<projVars, hookVars>>
       /\ (last'.op = "webhook_deliveries"
           /\ Val(last'.id) \in DOMAIN webhooks) =>
             IF /\ last'.caller # None
                /\ OwnerOrAdmin(Val(last'.caller),
                                webhooks[Val(last'.id)].user_id)
             THEN last'.result.status = 200
             ELSE /\ last'.result.status \in REFUSED
                  /\ UNCHANGED <<projVars, hookVars>>
      ]_vars

-----------------------------------------------------------------------------
(* C17: login attempts during a lock *)

\* the lock of the row is in force now
LockInForce(row) ==
    /\ row.locked_until # None
    /\ now < Val(row.locked_until)

\* C17: a login attempt for an account whose lock is in force changes neither
\* failed_attempts nor locked_until and appends no LoginAttempt row, whatever
\* the password; so attempts during a lock never postpone the time it lifts
C17_LockedAttemptChangesNothing ==
    [][(/\ last'.op = "login"
        /\ UserByEmail(last'.email) # None
        /\ LockInForce(users[UserOf(last'.email)]))
       => /\ users'[UserOf(last'.email)].failed_attempts
               = users[UserOf(last'.email)].failed_attempts
          /\ users'[UserOf(last'.email)].locked_until
               = users[UserOf(last'.email)].locked_until
          /\ attempts' = attempts]_vars

-----------------------------------------------------------------------------
(* C18: what a retry writes *)

\* C18: retry_failed_deliveries records the outcome of a retry only by
\* updating the original row in place: it creates no WebhookDelivery row, so
\* the table has as many rows after the call as before
C18_RetryCreatesNoRow ==
    [][last'.op = "retry_failed_deliveries"
       => Len(deliveries') = Len(deliveries)]_vars

-----------------------------------------------------------------------------
(* Retrying with the default limit *)

MaxRetryWire == 8
MaxOriginals == 2

\* the request failed before any response arrived
TransportFailures == {[kind |-> "timeout"], [kind |-> "connection_error"]}

RetryOutcomes == {Response(204), [kind |-> "timeout"]}

\* the webhooks of InitWebhooks; the legacy webhook failed one delivery
\* before it was switched off, and a failed delivery is left of a webhook
\* whose row is gone
InitRetry ==
    /\ app = "factory"
    /\ now = 0
    /\ users = InitUsers
    /\ sessions = {}
    /\ resets = <<>>
    /\ attempts = [ok |-> 0, failed |-> 0]
    /\ cookie = NoCookie
    /\ nextSession = 1
    /\ nextToken = 1
    /\ streak = [u \in UserIds |-> 0]
    /\ lockDeadline = [u \in UserIds |-> None]
    /\ spent = {}
    /\ superseded = {}
    /\ requested = {}
    /\ dbFaulty = FALSE
    /\ workers = NoWorkers
    /\ projects = InitProjects
    /\ deployments = {}
    /\ webhooks = [InitWebhooks EXCEPT ![3].failure_count = 1,
                                       ![3].last_triggered = Some(0)]
    /\ deliveries = <<NewDelivery(3, "project.deleted",
                         [event |-> "project.deleted",
                          data |-> <<<<"repo", Str("pak")>>>>], None),
                      NewDelivery(Len(InitWebhooks) + 1, "user.registered",
                         [event |-> "user.registered",
                          data |-> <<<<"repo", Str("pak")>>>>], None)>>
    /\ wire = <<>>
    /\ last = [op |-> "init"]

\* retry_failed_deliveries() with max_retries left at its default
RetryDefault(https, most) ==
    \E db \in DbOutcomes :
        \E outs \in [Retried(failed_deliveries(DEFAULT_MAX_RETRIES))
                        -> Outcomes(https)] :
            /\ Len(wire)
                 + Cardinality(Retried(failed_deliveries(DEFAULT_MAX_RETRIES)))
                  <= most
            /\ RetryFailedDeliveries(DEFAULT_MAX_RETRIES, outs, db)

DoDeliverOriginals == DeliverEvents(Payloads, RetryOutcomes, MaxOriginals)

DoRetryDefault == RetryDefault(RetryOutcomes, MaxRetryWire)

NextRetry ==
    \/ DoDeliverOriginals
    \/ DoRetryDefault

SpecRetry == InitRetry /\ [][NextRetry]_vars

-----------------------------------------------------------------------------
(* C19: retrying against an endpoint that never answers *)

RECURSIVE SumRetryCount(_)
SumRetryCount(rows) ==
    IF rows = <<>> THEN 0
    ELSE Head(rows).retry_count + SumRetryCount(Tail(rows))

\* every retry attempt adds one to the retry_count of the row it retried
RetryAttempts == SumRetryCount(deliveries)

\* the rows of the webhooks a retry attempts
Retryable ==
    {i \in Indexes(deliveries) :
        /\ deliveries[i].webhook_id \in DOMAIN webhooks
        /\ webhooks[deliveries[i].webhook_id].is_active}

\* those of them that no retry wrote: every attempt of a retry wrote one row
OriginalDeliveries == Cardinality(Retryable) - RetryAttempts

AlwaysTransportFailure ==
    \A i \in Indexes(wire) : wire[i].outcome \in TransportFailures

\* C19: with max_retries fixed and an endpoint that always fails before it
\* answers, retrying is bounded: the retries make at most max_retries HTTP
\* attempts for each original failed delivery
C19_RetryIsBounded ==
    AlwaysTransportFailure
    => RetryAttempts <= DEFAULT_MAX_RETRIES * OriginalDeliveries

-----------------------------------------------------------------------------
(* C20: which rows a retry touches *)

\* the rows the statement makes a retry with limit m re-attempt
Eligible(m) ==
    {i \in Indexes(deliveries) :
        /\ deliveries[i].status_code = None
        /\ deliveries[i].retry_count < m
        /\ deliveries[i].webhook_id \in DOMAIN webhooks
        /\ webhooks[deliveries[i].webhook_id].is_active}

\* the HTTP attempts of the step, by webhook
AttemptsTo(w) ==
    Cardinality({k \in Indexes(wire') \ Indexes(wire) :
                    wire'[k].webhook_id = w})

\* C20: retry_failed_deliveries re-attempts exactly the deliveries that have
\* no status code, a retry_count below max_retries and a webhook that exists
\* and is active: one HTTP attempt for each of them, none for any other row,
\* and every other row stays as it was; no retry_count exceeds max_retries
C20_RetriesExactlyEligible ==
    [][last'.op = "retry_failed_deliveries"
       => /\ \A w \in DOMAIN webhooks :
                AttemptsTo(w)
                  = Cardinality({i \in Eligible(last'.max_retries) :
                                    deliveries[i].webhook_id = w})
          /\ \A i \in Eligible(last'.max_retries) :
                deliveries'[i].retry_count = deliveries[i].retry_count + 1
          /\ \A i \in Indexes(deliveries) \ Eligible(last'.max_retries) :
                deliveries'[i] = deliveries[i]
          /\ \A i \in Indexes(deliveries') :
                deliveries'[i].retry_count <= last'.max_retries]_vars

\* a retry has brought a row to the limit and left alone the failed rows of
\* the inactive webhook and of the missing one, and a row that has a status
\* code
C20_Witness ==
    /\ last.op = "retry_failed_deliveries"
    /\ Len(wire) > last.from
    /\ \E i \in Indexes(deliveries) :
          /\ deliveries[i].retry_count = last.max_retries
          /\ deliveries[i].status_code = None
    /\ \E i \in Indexes(deliveries) :
          /\ deliveries[i].webhook_id \in DOMAIN webhooks
          /\ ~webhooks[deliveries[i].webhook_id].is_active
          /\ deliveries[i].status_code = None
          /\ deliveries[i].retry_count = 0
    /\ \E i \in Indexes(deliveries) :
          /\ deliveries[i].webhook_id \notin DOMAIN webhooks
          /\ deliveries[i].status_code = None
          /\ deliveries[i].retry_count = 0
    /\ \E i \in Indexes(deliveries) :
          /\ deliveries[i].status_code # None
          /\ deliveries[i].retry_count = 0

-----------------------------------------------------------------------------
(* C21: what a retry sends and writes *)

\* the rows that were in the table before the first call
SeededRows == Len(deliveries) - Len(wire)

\* the call that wrote row i
AttemptOf(i) == wire[i - SeededRows]

\* C21: for each delivery that retry_failed_deliveries re-attempts, the
\* attempt carries the event and the payload that the original failed
\* attempt was given; the row's retry_count grows by exactly 1; its status
\* becomes a success code when the re-attempt succeeded and stays absent
\* when it failed
C21_RetryRepeatsOriginal ==
    [][last'.op = "retry_failed_deliveries"
       => LET todo == Ascending(Eligible(last'.max_retries))
          IN \A n \in Indexes(todo) :
                LET i == todo[n]
                    again == wire'[Len(wire) + n]
                IN /\ again.webhook_id = AttemptOf(i).webhook_id
                   /\ again.body.event = AttemptOf(i).body.event
                   /\ again.body.data = AttemptOf(i).body.data
                   /\ again.headers.event = AttemptOf(i).headers.event
                   /\ deliveries'[i].retry_count
                         = deliveries[i].retry_count + 1
                   /\ IF again.success
                      THEN /\ deliveries'[i].status_code # None
                           /\ Val(deliveries'[i].status_code) >= 200
                           /\ Val(deliveries'[i].status_code) < 300
                      ELSE deliveries'[i].status_code = None]_vars

\* a retry re-attempted two deliveries of different payloads; one succeeded,
\* the other timed out
C21_Witness ==
    /\ last.op = "retry_failed_deliveries"
    /\ Len(wire) >= last.from + 2
    /\ \E j, k \in (last.from + 1)..Len(wire) :
          /\ wire[j].success
          /\ ~wire[k].success
          /\ wire[k].outcome \in TransportFailures
          /\ wire[j].body.data # wire[k].body.data
    /\ \E i \in Indexes(deliveries) :
          /\ deliveries[i].retry_count = 1
          /\ deliveries[i].status_code = Some(RETRIED_STATUS)
    /\ \E i \in Indexes(deliveries) :
          /\ deliveries[i].retry_count = 1
          /\ deliveries[i].status_code = None

-----------------------------------------------------------------------------
(* C22: the counter and the audit row of a failed login *)

\* the login handlers on a database whose commits may fail
InitLoginFaulty ==
    /\ app \in {"factory", "herd"}
    /\ now = 0
    /\ users = InitUsers
    /\ sessions = {}
    /\ resets = <<>>
    /\ attempts = [ok |-> 0, failed |-> 0]
    /\ cookie = NoCookie
    /\ nextSession = 1
    /\ nextToken = 1
    /\ streak = [u \in UserIds |-> 0]
    /\ lockDeadline = [u \in UserIds |-> None]
    /\ spent = {}
    /\ superseded = {}
    /\ requested = {}
    /\ dbFaulty = TRUE
    /\ workers = NoWorkers
    /\ projects = InitProjects
    /\ deployments = {}
    /\ webhooks = <<>>
    /\ deliveries = <<>>
    /\ wire = <<>>
    /\ last = [op |-> "init"]

NextLoginFaulty ==
    \/ DoAuthLogin
    \/ DoApiLogin
    \/ DoHerdLogin

SpecLoginFaulty == InitLoginFaulty /\ [][NextLoginFaulty]_vars

\* C22: for a failed password verification of an existing user, the
\* increment of failed_attempts (with the lock it may set) and the failed
\* LoginAttempt row are persisted together or not at all, also when a commit
\* of the handler fails
C22_CounterAndAuditTogether ==
    [][(/\ last'.op = "login"
        /\ UserByEmail(last'.email) # None
        /\ ~check_password(users[UserOf(last'.email)], last'.password))
       => ((users'[UserOf(last'.email)] # users[UserOf(last'.email)])
             <=> (attempts'.failed = attempts.failed + 1))]_vars

-----------------------------------------------------------------------------
(* C23: a failed write of the bookkeeping *)

DELIVERING == {"deliver_event", "test_webhook", "retry_failed_deliveries"}

Attempts(target) == target.success_count + target.failure_count

\* C23: when the write that records a delivery attempt fails, nothing of the
\* attempt is persisted, neither its row nor the counter and last_triggered
\* change, and no later write of the same session persists it: the rows and
\* the counters grow by the attempts whose write succeeded, and the row of a
\* webhook without such an attempt stays as it was
C23_FailedWritePersistsNothing ==
    [][last'.op \in DELIVERING
       => LET new == Indexes(wire') \ Indexes(wire)
              recorded(w) == {k \in new : /\ wire'[k].webhook_id = w
                                          /\ wire'[k].recorded}
          IN /\ Len(deliveries')
                  = Len(deliveries)
                      + Cardinality({k \in new : wire'[k].recorded})
             /\ \A w \in DOMAIN webhooks :
                   /\ Attempts(webhooks'[w])
                        = Attempts(webhooks[w]) + Cardinality(recorded(w))
                   /\ recorded(w) = {} => webhooks'[w] = webhooks[w]]_vars

\* a deliver_event whose first attempt was answered 2xx and could not be
\* recorded went on to a second attempt on the same session; no row and no
\* counter of either attempt is in the tables
C23_Witness ==
    /\ last.op = "deliver_event"
    /\ Len(wire) = last.from + 2
    /\ ~wire[last.from + 1].recorded
    /\ wire[last.from + 1].outcome.kind = "response"
    /\ is_success(wire[last.from + 1].outcome.status_code)
    /\ ~wire[last.from + 2].raised
    /\ deliveries = <<>>
    /\ \A w \in DOMAIN webhooks : Attempts(webhooks[w]) = 0

----------------------------------------------------------------------------
(* Two request workers delivering to the same webhook *)

\* what the commit of a session writes into a row another session may have
\* changed meanwhile: the UPDATE sets the columns whose value the session
\* changed since it loaded the row, to the values the session computed
FlushRow(current, loaded, mem) ==
    [c \in DOMAIN current |-> IF mem[c] # loaded[c] THEN mem[c] ELSE current[c]]

FlushWebhooks(loaded, mem) ==
    [w \in DOMAIN webhooks |->
        FlushRow(webhooks[w], loaded.webhooks[w], mem.webhooks[w])]

\* the rows the session added are inserted after the rows now in the table
FlushDeliveries(loaded, mem) ==
    deliveries \o SubSeq(mem.deliveries, Len(loaded.deliveries) + 1,
                         Len(mem.deliveries))

Started == Len(wire) + Cardinality({k \in WorkerIds : workers[k].pc = "loaded"})

\* test_webhook up to the call of deliver_to_webhook: the worker's session
\* loads the webhook
WorkerLoad(k, w) ==
    /\ app = "factory"
    /\ workers[k].pc # "loaded"
    /\ Started < MaxWorkerCalls
    /\ IF ~webhooks[w].is_active
       THEN /\ workers' = [workers EXCEPT ![k] = [pc |-> "idle"]]
            /\ last' = [op |-> "test_webhook", worker |-> k, webhook_id |-> w,
                        from |-> Len(wire), result |-> [status |-> 400]]
       ELSE /\ workers' = [workers EXCEPT ![k] =
                             [pc |-> "loaded", webhook_id |-> w,
                              st |-> OpenSession({WebhookKey(w)})]]
            /\ last' = [op |-> "load_webhook", worker |-> k, webhook_id |-> w,
                        from |-> Len(wire)]
    /\ UNCHANGED <<app, now, authVars, dbFaulty, projVars, hookVars>>

\* the rest of the request: deliver_to_webhook on the objects the worker's
\* session holds, and the writes of its commit
WorkerDeliver(k, out) ==
    /\ workers[k].pc = "loaded"
    /\ LET w == workers[k].webhook_id
           mine == workers[k].st
           end == deliver_to_webhook(mine, w, "test", test_payload(w), out)
       IN  /\ webhooks' = FlushWebhooks(mine.db, end.st.db)
           /\ deliveries' = FlushDeliveries(mine.db, end.st.db)
           /\ wire' = Append(wire, end.st.wire[Len(end.st.wire)])
           /\ workers' = [workers EXCEPT ![k] = [pc |-> "idle"]]
           /\ last' = [op |-> "test_webhook", worker |-> k, webhook_id |-> w,
                       from |-> Len(wire),
                       result |-> IF end.raised THEN [status |-> 500]
                                  ELSE [status |-> 200, success |-> end.success]]
    /\ UNCHANGED <<app, now, authVars, dbFaulty, projVars>>

DoWorkerLoad == \E k \in WorkerIds, w \in WebhookIds : WorkerLoad(k, w)

DoWorkerDeliver ==
    \E k \in WorkerIds, out \in Outcomes(FewOutcomes) : WorkerDeliver(k, out)

NextWorkers == DoWorkerLoad \/ DoWorkerDeliver

SpecWorkers == InitHooks(FALSE) /\ [][NextWorkers]_vars

\* C24: no counter update of concurrent delivery attempts is lost: the sum of
\* success_count and failure_count of every webhook has grown by one for
\* every attempt made to it, so by exactly two after the attempts of two
\* workers
C24_NoUpdateLost ==
    \A w \in DOMAIN webhooks :
        Attempts(webhooks[w])
            = Cardinality(CallsTo(w, TRUE)) + Cardinality(CallsTo(w, FALSE))

----------------------------------------------------------------------------
(* C25: the persisted status of a deployment *)

StatusRank(status) ==
    IF status = "pending" THEN 0 ELSE IF status = "running" THEN 1 ELSE 2

\* C25: the persisted status of a deployment only moves forward along
\* pending, running, then one of success, failed and cancelled; a terminal
\* status never changes; and every deployment a request starts as running
\* is persisted with a terminal status when the request has finished
C25_StatusOnlyForward ==
    [][/\ \A before \in deployments, after \in deployments' :
            before.id = after.id =>
                /\ StatusRank(before.status) <= StatusRank(after.status)
                /\ before.status \in COMPLETED
                       => after.status = before.status
       /\ \A d \in deployments' :
            (last'.op = "execute_project_tsk"
                /\ d.id \notin {x.id : x \in deployments})
                => d.status \in COMPLETED]_vars

----------------------------------------------------------------------------
(* The deployment model on its own: rows written through models.py *)

\* rows written through the model on its own
MaxTimed == 1

Stamps == {None, Some(0), Some(3)}
Durations == {None, Some(0), Some(7)}
Statuses == {"running", "success"}
TIMING == {"status", "started_at", "completed_at", "duration"}

ValuesOf(field) ==
    IF field = "status" THEN Statuses
    ELSE IF field = "duration" THEN Durations
    ELSE Stamps

\* db.session.add(PakDeployment(...)); db.session.commit(): the row is stored
\* as constructed, and after_insert updates the project
InsertDeployment(user, p, status, started_at, completed_at, duration) ==
    LET id == NextId({d.id : d \in deployments})
        row == [NewDeployment(id, p, user) EXCEPT
                  !.status = status, !.started_at = started_at,
                  !.completed_at = completed_at, !.duration = duration]
        inserted == deployments \cup {row}
    IN  /\ app = "factory"
        /\ p \in DOMAIN projects
        /\ Cardinality(deployments) < MaxTimed
        /\ deployments' = inserted
        /\ projects' = [projects EXCEPT
                          ![p] = update_project_stats(@, row, inserted)]
        /\ last' = [op |-> "insert_deployment", caller |-> user,
                    id |-> Some(id), result |-> [status |-> 201]]
        /\ UNCHANGED <<app, now, authVars, dbFaulty, workers, hookVars>>

\* an attribute of a stored deployment is assigned and the session
\* committed: before_update runs on the changed object
UpdateDeployment(d, field, value) ==
    LET changed == [d EXCEPT ![field] = value]
    IN  /\ app = "factory"
        /\ d \in deployments
        /\ changed # d
        /\ deployments' =
              (deployments \ {d}) \cup {update_deployment_stats(changed)}
        /\ last' = [op |-> "update_deployment", caller |-> d.user_id,
                    id |-> Some(d.id), field |-> field,
                    result |-> [status |-> 200]]
        /\ UNCHANGED <<app, now, authVars, dbFaulty, workers, hookVars,
                       projects>>

DoInsertDeployment ==
    \E user \in UserIds, p \in ProjectIds, status \in Statuses,
       started_at \in Stamps, completed_at \in Stamps, duration \in Durations :
        InsertDeployment(user, p, status, started_at, completed_at, duration)

DoUpdateDeployment ==
    \E d \in deployments, field \in TIMING :
        \E value \in ValuesOf(field) : UpdateDeployment(d, field, value)

NextDuration == DoCreateProject \/ DoInsertDeployment \/ DoUpdateDeployment

SpecDuration == InitProjectsSpec /\ [][NextDuration]_vars

WholeSeconds(seconds, ticks) ==
    IF ticks >= 0
    THEN /\ seconds * TICKS_PER_SECOND <= ticks
         /\ ticks < (seconds + 1) * TICKS_PER_SECOND
    ELSE /\ ticks <= seconds * TICKS_PER_SECOND
         /\ (seconds - 1) * TICKS_PER_SECOND < ticks

----------------------------------------------------------------------------
(* C27: lock and counter *)

\* C27: in every state that login attempts made one after the other reach,
\* locked_until of a user is set exactly when failed_attempts is at least
\* MAX_FAILED_ATTEMPTS
C27_LockedIffFiveFailures ==
    \A u \in DOMAIN users :
        (users[u].locked_until # None)
            <=> (users[u].failed_attempts >= MAX_FAILED_ATTEMPTS)

\* a failed login has locked one user while another has failures short of
\* the limit and no lock
C27_Witness ==
    /\ last.op = "login"
    /\ \E u \in DOMAIN users :
          /\ users[u].failed_attempts >= MAX_FAILED_ATTEMPTS
          /\ users[u].locked_until # None
    /\ \E u \in DOMAIN users :
          /\ users[u].failed_attempts \in 1 .. (MAX_FAILED_ATTEMPTS - 1)
          /\ users[u].locked_until = None

----------------------------------------------------------------------------
(* C28: counters and delivery rows *)

\* C28: while no cleanup runs and no database write fails, after any
\* sequence of deliver_event, deliver_to_webhook and
\* retry_failed_deliveries the sum of success_count and failure_count of
\* every webhook is the number of WebhookDelivery rows created for it
C28_CountersEqualRows ==
    \A w \in DOMAIN webhooks :
        Attempts(webhooks[w]) = Cardinality(DeliveriesOf(w))

\* a webhook with a failed attempt and a successful retry of it: two rows,
\* one count of each kind
C28_Witness ==
    /\ last.op = "retry_failed_deliveries"
    /\ \E w \in DOMAIN webhooks :
          /\ webhooks[w].success_count >= 1
          /\ webhooks[w].failure_count >= 1
          /\ Cardinality(DeliveriesOf(w)) = 2

----------------------------------------------------------------------------
(* Two request workers resetting a password with the same token *)

ResetVia == IF app = "factory" THEN "auth" ELSE "herd"

\* reset_password up to the assignments: the worker's session finds the
\* unused row of the token and checks expiry and, in auth.py, the form
WorkerFindReset(k, token, password) ==
    LET i == find_reset(token)
        expired == IF ResetVia = "auth" THEN is_expired(resets[i])
                   ELSE resets[i].expires_at < now
    IN /\ workers[k].pc = "idle"
       /\ IF i = 0 \/ expired
          THEN /\ last' = ResetResult(ResetVia, token, "POST", password,
                                      password, "invalid_or_expired")
               /\ UNCHANGED workers
          ELSE IF /\ ResetVia = "auth"
                  /\ PasswordLength(password) < MIN_PASSWORD_LENGTH
          THEN /\ last' = ResetResult(ResetVia, token, "POST", password,
                                      password, "validation_error")
               /\ UNCHANGED workers
          ELSE /\ workers' = [workers EXCEPT ![k] =
                                [pc |-> "found", token |-> token,
                                 password |-> password]]
               /\ last' = [op |-> "find_reset", via |-> ResetVia,
                           worker |-> k, token |-> token]
       /\ UNCHANGED <<app, now, authVars, dbFaulty, projVars, hookVars>>

\* the rest of the request: the password and used = True are assigned to the
\* objects the session holds and committed. The UPDATE of a row that a
\* forgot_password deleted meanwhile matches nothing, and the commit raises.
WorkerCommitReset(k) ==
    LET token == workers[k].token
        password == workers[k].password
        rows == {i \in Indexes(resets) : resets[i].token = token}
    IN /\ workers[k].pc = "found"
       /\ workers' = [workers EXCEPT ![k] = [pc |-> "idle"]]
       /\ IF rows = {}
          THEN /\ last' = ResetResult(ResetVia, token, "POST", password,
                                      password, "error")
               /\ UNCHANGED <<users, resets, spent>>
          ELSE /\ ApplyReset(CHOOSE i \in rows : TRUE, password)
               /\ last' = ResetResult(ResetVia, token, "POST", password,
                                      password, "success")
       /\ UNCHANGED <<app, now, sessions, attempts, cookie, nextSession,
                      nextToken, streak, lockDeadline, superseded, requested,
                      dbFaulty, projVars, hookVars>>

DoWorkerFindReset ==
    \E k \in WorkerIds, token \in Tokens, password \in Passwords :
        WorkerFindReset(k, token, password)

DoWorkerCommitReset == \E k \in WorkerIds : WorkerCommitReset(k)

NextResetWorkers ==
    \/ DoForgotPassword
    \/ DoHerdRequestPasswordReset
    \/ DoWorkerFindReset
    \/ DoWorkerCommitReset
    \/ TickReset

SpecResetWorkers == Init /\ [][NextResetWorkers]_vars

\* C29: of the reset_password requests that two workers handle with the same
\* valid, unused token at most one changes the password: a request that
\* finishes after another one consumed the token is rejected and changes no
\* user
C29_OneResetPerToken ==
    [][(last'.op = "reset_password" /\ last'.token \in spent)
          => /\ last'.result # "success"
             /\ users' = users]_vars

----------------------------------------------------------------------------
(* C30: failures after the lock has run out *)

LockInterval(via) == IF via = "herd" THEN HERD_LOCK_MINUTES ELSE LOCK_MINUTES

LockRanOut(row) ==
    /\ row.locked_until # None
    /\ Val(row.locked_until) <= now

\* C30: the passing of time changes no failed_attempts, and when
\* locked_until of a user has passed without a successful login, one more
\* failed attempt counts on from the old failed_attempts and sets
\* locked_until to a full lockout interval from now
C30_ExpiredLockRelocksAtOnce ==
    [][/\ now' # now => users' = users
       /\ (/\ last'.op = "login"
           /\ UserByEmail(last'.email) # None
           /\ LockRanOut(users[UserOf(last'.email)])
           /\ ~check_password(users[UserOf(last'.email)], last'.password))
          => /\ users'[UserOf(last'.email)].failed_attempts
                  = users[UserOf(last'.email)].failed_attempts + 1
             /\ users'[UserOf(last'.email)].locked_until
                  = Some(now' + LockInterval(last'.via))
             /\ now' < Val(users'[UserOf(last'.email)].locked_until)]_vars

\* a sixth failure, made when the lock of the fifth had run out, locked the
\* account again
C30_Witness ==
    /\ last.op = "login"
    /\ last.result = "invalid_credentials"
    /\ last.before # None
    /\ LockRanOut(Val(last.before))
    /\ Val(last.before).failed_attempts = MAX_FAILED_ATTEMPTS
    /\ users[UserOf(last.email)].failed_attempts = MAX_FAILED_ATTEMPTS + 1
    /\ LockInForce(users[UserOf(last.email)])
    /\ now > 0

====
